---- MODULE Spec2Model ----
(***************************************************************************)
(* Model of WorkspaceContext (vscode-swift): the set of package folders,   *)
(* the focused folder and the events delivered to folder observers.        *)
(*                                                                         *)
(* Every async function of WorkspaceContext is a sequence of synchronous   *)
(* blocks separated by awaits.  A task is one running async call chain: a  *)
(* program counter, a stack of return labels and the locals of the         *)
(* functions on the chain.  Exec runs one instruction, Run runs a task to  *)
(* its next await, and each action of the model is one synchronous block   *)
(* of JavaScript: a host event calling its handler up to the first await,  *)
(* or the resumption of one suspended task up to its next await.  A call   *)
(* that is not awaited (forEach(async ...), focusFolder(null) in           *)
(* removeWorkspaceFolder, focusUri in initialisationComplete) runs inside  *)
(* the caller's block up to its own first await and is then a task of its  *)
(* own.                                                                    *)
(*                                                                         *)
(* SwiftTaskProvider is modelled beside it: getBuildAllTask and            *)
(* provideTasks are functions of the folders, the task queues and the      *)
(* tasks the host returns, each called in one action.                      *)
(*                                                                         *)
(* Promises that are rejected are actions of their own: an observer that   *)
(* throws, a FolderContext whose creation fails.  The upward search of     *)
(* getPackageFolder is also given one directory at a time, to state that   *)
(* it ends.                                                                *)
(***************************************************************************)
EXTENDS Integers, Sequences, FiniteSets, TLC

\* ------------------------------------------------------------------ bounds
MaxHostEvents == 1
MaxTasks == 3
NumObservers == 2
MaxHostTasks == 2
MaxPending == 2

\* ------------------------------------------------------- values and paths
\* currentFolder: FolderContext | null | undefined.  A FolderContext is a
\* reference (index) into heap; null and undefined are two reserved refs.
UndefinedRef == 0 - 1
NullRef == 0

\* A path is the sequence of its segments.
NoPath == << >>
WsRoot == <<"ws">>
Outer == <<"ws", "outer">>
Inner == <<"ws", "outer", "inner">>

\* vscode.Uri: scheme and fsPath.  NoUri stands for undefined / null.
NoUri == [scheme |-> "", path |-> NoPath]
FileA == [scheme |-> "file", path |-> <<"ws", "outer", "a.swift">>]
FileB == [scheme |-> "file", path |-> <<"ws", "outer", "inner", "b.swift">>]
Untitled == [scheme |-> "untitled", path |-> <<"Untitled-1">>]
Uris == {FileA, FileB, Untitled}

\* The workspace folders as arguments of getPackageFolder, and a file that is
\* in none.
DirRoot == [scheme |-> "file", path |-> WsRoot]
DirInner == [scheme |-> "file", path |-> Inner]
FileTmp == [scheme |-> "file", path |-> <<"tmp", "z.swift">>]

\* More files the editor may show at start-up: under a directory without a
\* manifest, under a dependency checkout, and at the workspace root.
FileDocs == [scheme |-> "file", path |-> <<"ws", "docs", "x.md">>]
FileDep == [scheme |-> "file", path |-> <<"ws", "Packages", "dep", "y.swift">>]
FileReadme == [scheme |-> "file", path |-> <<"ws", "README.md">>]
SearchUris == {FileA, FileB, FileDocs, FileDep, FileReadme}

\* The folders the host may have as workspace folders.
WsCandidates == {WsRoot, Inner}

\* --------------------------------------------------------- the file system
HasPackageSwift == {Outer, <<"ws", "Packages">>, <<"ws", ".build">>}
HasCompileCommands == {Inner}

\* vscode.workspace.fs.readDirectory: [name, type] entries of a directory.
readDirectory(d) ==
    IF d = WsRoot
    THEN << [name |-> ".build", type |-> "Directory"],
            [name |-> "Packages", type |-> "Directory"],
            [name |-> "README.md", type |-> "File"],
            [name |-> "outer", type |-> "Directory"] >>
    ELSE IF d = Outer
    THEN << [name |-> "a.swift", type |-> "File"],
            [name |-> "inner", type |-> "Directory"] >>
    ELSE IF d = Inner
    THEN << [name |-> "b.swift", type |-> "File"] >>
    ELSE << >>

\* entry[0][0] === "." for the names of the universe
StartsWithDot(name) == name \in {".build"}

\* path.dirname; the root is its own parent.
dirname(p) == IF Len(p) = 0 THEN p ELSE SubSeq(p, 1, Len(p) - 1)

\* utilities.isPathInsidePath(subpath, parent): containment on segment
\* boundaries.
isPathInsidePath(subpath, parent) ==
    /\ Len(parent) <= Len(subpath)
    /\ SubSeq(subpath, 1, Len(parent)) = parent

\* a validation that answers yes for every directory
isValidWorkspaceFolder_Unchecked(d) == TRUE
isValidWorkspaceFolder(d) == d \in HasPackageSwift \/ d \in HasCompileCommands

RECURSIVE Reverse(_)
Reverse(q) == IF q = << >> THEN << >> ELSE Append(Reverse(Tail(q)), Head(q))

\* vscode.workspace.getWorkspaceFolder: the innermost workspace folder of
\* the host that contains the path, NoPath when there is none.
getWorkspaceFolder(wsf, p) ==
    LET owners == {i \in 1..Len(wsf) : isPathInsidePath(p, wsf[i])}
    IN IF owners = {} THEN NoPath
       ELSE wsf[CHOOSE i \in owners : \A j \in owners : Len(wsf[j]) <= Len(wsf[i])]

\* getActiveWorkspaceFolder(editor)
getActiveWorkspaceFolder(wsf, editor) ==
    IF editor = NoUri THEN NoPath ELSE getWorkspaceFolder(wsf, editor.path)

\* an upward search that keeps the first directory found
RECURSIVE SearchParents_Innermost(_, _, _)
SearchParents_Innermost(currentFolder, workspacePath, packagePath) ==
    IF currentFolder = workspacePath THEN packagePath
    ELSE LET parent == dirname(currentFolder)
         IN SearchParents_Innermost(parent, workspacePath,
                IF packagePath = NoPath /\ isValidWorkspaceFolder(parent)
                THEN parent ELSE packagePath)

\* The upward search of getPackageFolder, from the loop on.
RECURSIVE SearchParents(_, _, _)
SearchParents(currentFolder, workspacePath, packagePath) ==
    IF currentFolder = workspacePath THEN packagePath
    ELSE LET parent == dirname(currentFolder)
         IN SearchParents(parent, workspacePath,
                          IF isValidWorkspaceFolder(parent) THEN parent ELSE packagePath)

\* The upward search of getPackageFolder; NoPath for undefined.
SearchUp(urlPath, workspacePath) ==
    LET first == dirname(urlPath)
    IN SearchParents(first, workspacePath,
                     IF isValidWorkspaceFolder(first) THEN first ELSE NoPath)

RECURSIVE SubDirs_All(_, _)
\* every child directory, whatever its name
SubDirs_All(d, entries) ==
    IF entries = << >> THEN << >>
    ELSE LET e == Head(entries)
             rest == SubDirs_All(d, Tail(entries))
         IN IF e.type = "Directory" THEN << Append(d, e.name) >> \o rest
            ELSE rest

\* The directories searchForPackages recurses into, in directory order.
RECURSIVE SubDirs(_, _)
SubDirs(d, entries) ==
    IF entries = << >> THEN << >>
    ELSE LET e == Head(entries)
             rest == SubDirs(d, Tail(entries))
         IN IF e.type = "Directory" /\ ~StartsWithDot(e.name) /\ e.name # "Packages"
            THEN << Append(d, e.name) >> \o rest
            ELSE rest

\* ------------------------------------------------------------------ state
VARIABLES
    folders,                 \* WorkspaceContext.folders: sequence of refs
    currentFolder,           \* ref, NullRef or UndefinedRef
    currentDocument,         \* Uri, NoUri for null
    lastFocusUri,            \* Uri, NoUri for undefined
    initialisationFinished,
    observers,               \* the observers in registration order
    heap,                    \* the FolderContext objects created so far
    disposed,                \* refs of the FolderContexts disposed
    tasks,                   \* the suspended async call chains
    workspaceFolders,        \* host: vscode.workspace.workspaceFolders
    activeTextEditor,        \* host: uri of vscode.window.activeTextEditor
    searchSubfoldersForPackages, \* host: the configuration setting
    started,                 \* addWorkspaceFolders has been called
    hostEvents,              \* number of host events delivered
    calls,                   \* the observer calls made by the last block
    view,                    \* per observer: the last focus/unfocus it got
    removal,                 \* per FolderContext: how it was removed
    ffCall,                  \* the focusFolder call made by the last block
    lookup,                  \* the folder lookup made by the last block
    upward,                  \* the upward search finished by the last block
    handler,                 \* the host event handled by the last block
    hostTasks,               \* host: the tasks vscode.tasks.fetchTasks returns
    taskQueue,               \* per FolderContext: its taskQueue
    provided,                \* the result of the last provideTasks call
    buildAll,                \* the result of the last getBuildAllTask call
    finished,                \* the terminal state reached in the last block
    rejected                 \* the observer promise rejected in the last block

vars == << folders, currentFolder, currentDocument, lastFocusUri,
           initialisationFinished, observers, heap, disposed, tasks,
           workspaceFolders, activeTextEditor, searchSubfoldersForPackages,
           started, hostEvents, calls, view, removal, ffCall, lookup, upward,
           handler, hostTasks, taskQueue, provided, buildAll, finished,
           rejected >>

\* ------------------------------------------------------------------ tasks
NewTask ==
    [pc |-> "done", stack |-> << >>, origin |-> "", uri |-> NoUri,
     pk |-> "none", pf |-> UndefinedRef, wsp |-> NoPath,
     target |-> UndefinedRef, prev |-> UndefinedRef, fc |-> UndefinedRef,
     ev |-> "", i |-> 0, rq |-> << >>, ws |-> NoPath, dir |-> NoPath,
     todo |-> << >>, wsq |-> << >>, rmq |-> << >>, newfc |-> UndefinedRef,
     seen |-> << >>, found |-> << >>, packagePath |-> NoPath]

\* The labels a task is suspended at.
Suspended == {"sfp_valid", "gpf_wait", "gpf_valid", "apf_create", "fire_wait",
              "rm_wait", "tick"}

NoCall == [made |-> FALSE, target |-> UndefinedRef, cur |-> UndefinedRef]
NoLookup == [made |-> FALSE, url |-> NoPath, result |-> UndefinedRef]
NoSearch == [made |-> FALSE, url |-> NoPath, workspace |-> NoPath,
             result |-> NoPath]
NoView == [ev |-> "", fc |-> UndefinedRef]
\* no operation: taskQueue.activeOperation is undefined
NoOperation ==
    [name |-> "", group |-> "", exclusive |-> FALSE, bypassesQueue |-> FALSE]
\* the task queue of a new FolderContext
NoQueue ==
    [activeOperation |-> NoOperation, concurrent |-> << >>, pending |-> << >>]
\* no operation has reached a terminal state in the block
NoFinished == [made |-> FALSE, state |-> ""]
\* no promise of an observer was rejected in the block
NoRejected == [made |-> FALSE, ev |-> "", fc |-> UndefinedRef, obs |-> 0,
               stack |-> << >>, frames |-> << >>]
NoTask == [source |-> "", type |-> "", scope |-> NoPath, name |-> "",
           cwd |-> NoPath, group |-> "", isDefault |-> FALSE, detail |-> ""]
NoProvided == [made |-> FALSE, tasks |-> << >>]
NoBuildAll == [made |-> FALSE, folder |-> UndefinedRef, task |-> NoTask,
               error |-> ""]
\* of a FolderContext: the observers sent its remove event, in the order of
\* the calls, whether it was the focused folder when it was removed and
\* whether it was then the only folder of its workspace folder
NoRemoval == [notified |-> << >>, focused |-> FALSE, sole |-> FALSE]

\* The machine state a synchronous block runs on: the fields of the
\* WorkspaceContext, what the block reads of the host, the running task t
\* and the tasks the block has spawned.
Machine(t) ==
    [folders |-> folders, cur |-> currentFolder, doc |-> currentDocument,
     last |-> lastFocusUri, fin |-> initialisationFinished, obs |-> observers,
     heap |-> heap, disposed |-> disposed, calls |-> << >>, view |-> view,
     removal |-> removal, ffCall |-> NoCall, lookup |-> NoLookup,
     upward |-> NoSearch, rejected |-> NoRejected,
     wsf |-> workspaceFolders, editor |-> activeTextEditor,
     search |-> searchSubfoldersForPackages, t |-> t, spawned |-> << >>]

Goto(s, l) == [s EXCEPT !.t.pc = l]
Call(s, entry, ret) == [s EXCEPT !.t.pc = entry, !.t.stack = << ret >> \o @]
\* return to the caller, whose await has already been paid for by an await
\* inside the callee
Ret(s) ==
    IF s.t.stack = << >> THEN [s EXCEPT !.t = NewTask]
    ELSE [s EXCEPT !.t.pc = Head(s.t.stack), !.t.stack = Tail(@)]
\* onDidChangeWorkspaceFolders has nothing left to do but to return: the last
\* added or removed folder has been handled
HandlerFinished(t) ==
    /\ t.stack \in {<< "odc_add" >>, << "odc_rm" >>}
    /\ t.wsq = << >>
    /\ t.rmq = << >>

\* return from a callee that did not suspend since its last access to the
\* state: the caller's await suspends the chain
RetTick(s) ==
    IF s.t.stack = << >> \/ HandlerFinished(s.t) THEN [s EXCEPT !.t = NewTask]
    ELSE [s EXCEPT !.t.pc = "tick"]

\* a dispatch that catches the error of an observer and goes on
Throw_Caught(s) == Goto(s, "fire_call")

\* The await of an observer throws.  No function of the WorkspaceContext has
\* a try statement: the error leaves fireEvent and every caller that awaits
\* the chain, and the task ends.
Throw(s) ==
    [s EXCEPT !.t = NewTask,
              !.rejected.frames = << "fireEvent" >> \o s.t.stack]

\* One observer call: observer(folder, event, this).  The record of the call
\* keeps the observer, the event, the folder, currentFolder at the time of
\* the call, the function the call chain started from and, for focus, the
\* folder that was current when focusFolder was called.
Notify(s, o) ==
    [s EXCEPT !.calls = Append(@, [obs |-> o, ev |-> s.t.ev, fc |-> s.t.fc,
                                   cur |-> s.cur, prev |-> s.t.prev,
                                   origin |-> s.t.origin]),
              !.view[o] = IF s.t.ev \in {"focus", "unfocus"}
                          THEN [ev |-> s.t.ev, fc |-> s.t.fc] ELSE @,
              !.removal = IF s.t.ev = "remove"
                          THEN [@ EXCEPT ![s.t.fc].notified = Append(@, o)]
                          ELSE @]

\* an iteration of the observers that takes no notice of disposals
NextObserver_IgnoresDispose(obs, last) ==
    IF last < NumObservers THEN last + 1 ELSE 0

\* for (const observer of this.observers): the observer the iteration of the
\* set visits after the observer last, the first one if last is 0, and 0 at
\* the end.  The set is iterated in the order of insertion as it is at each
\* step: an observer deleted before its turn is not visited.
NextObserver(obs, last) ==
    LET rest == {k \in 1..Len(obs) : obs[k] > last}
    IN IF rest = {} THEN 0 ELSE obs[CHOOSE k \in rest : \A j \in rest : k <= j]

\* folders.find(context => isPathInsidePath(url.fsPath, context.folder.fsPath))
FindFolder(fs, h, p) ==
    LET hits == {i \in 1..Len(fs) : isPathInsidePath(p, h[fs[i]].folder)}
    IN IF hits = {} THEN UndefinedRef
       ELSE fs[CHOOSE i \in hits : \A j \in hits : i <= j]

\* folders.findIndex(context => context.folder.fsPath === folder.fsPath)
FindIndex(fs, h, p) ==
    LET hits == {i \in 1..Len(fs) : h[fs[i]].folder = p}
    IN IF hits = {} THEN 0 ELSE CHOOSE i \in hits : \A j \in hits : i <= j

\* focusFolder without the comparison of its argument with currentFolder
FocusFolderEntry_NoEarlyReturn(s) ==
    LET s1 == [s EXCEPT !.ffCall = [made |-> TRUE, target |-> s.t.target,
                                    cur |-> s.cur],
                        !.t.prev = s.cur]
    IN IF s.cur # UndefinedRef
       THEN Call([s1 EXCEPT !.t.fc = s.cur, !.t.ev = "unfocus"],
                 "fireEvent", "ff_set")
       ELSE Goto(s1, "ff_set")

\* focusFolder that sends unfocus whatever currentFolder is
FocusFolderEntry_UnfocusUndetermined(s) ==
    LET s1 == [s EXCEPT !.ffCall = [made |-> TRUE, target |-> s.t.target,
                                    cur |-> s.cur]]
    IN IF s.t.target = s.cur THEN RetTick(s1)
       ELSE Call([s1 EXCEPT !.t.prev = s.cur, !.t.fc = s.cur, !.t.ev = "unfocus"],
                 "fireEvent", "ff_set")

\* focusFolder, up to the first observer call
FocusFolderEntry(s) ==
    LET s1 == [s EXCEPT !.ffCall = [made |-> TRUE, target |-> s.t.target,
                                    cur |-> s.cur]]
    IN IF s.t.target = s.cur THEN RetTick(s1)
       ELSE LET s2 == [s1 EXCEPT !.t.prev = s.cur]
            IN IF s.cur # UndefinedRef
               THEN Call([s2 EXCEPT !.t.fc = s.cur, !.t.ev = "unfocus"],
                         "fireEvent", "ff_set")
               ELSE Goto(s2, "ff_set")

\* focusUri that sets the focus to null for no document and for a document
\* that is not a file
FocusUriEntry_NullForNonFile(s) ==
    LET s1 == [s EXCEPT !.doc = s.t.uri]
    IN IF s.t.uri.scheme = "file" THEN Goto(s1, "focusPackageUri")
       ELSE Goto([s1 EXCEPT !.t.target = NullRef, !.t.uri = NoUri],
                 "focusFolder")

\* focusUri, up to the call of focusPackageUri
FocusUriEntry(s) ==
    LET s1 == [s EXCEPT !.doc = s.t.uri]
    IN IF s.t.uri.scheme = "file" THEN Goto(s1, "focusPackageUri")
       ELSE RetTick(s1)

\* the observers in the order fireEvent calls them in
RemoveOrder_Registration(obs) == obs

\* The order removeWorkspaceFolder calls the observers in
RemoveOrder(obs) == Reverse(obs)

\* getPackageFolder, up to its first await
GetPackageFolderEntry(s) ==
    LET url == s.t.uri.path
        folder == FindFolder(s.folders, s.heap, url)
        workspaceFolder == getWorkspaceFolder(s.wsf, url)
        s1 == [s EXCEPT !.lookup = [made |-> TRUE, url |-> url,
                                    result |-> folder],
                        !.t.pc = "gpf_wait"]
    IN IF folder # UndefinedRef
       THEN [s1 EXCEPT !.t.pk = "folder", !.t.pf = folder]
       ELSE IF workspaceFolder = NoPath
       THEN [s1 EXCEPT !.t.pk = "none"]
       ELSE [s1 EXCEPT !.t.pk = "search", !.t.wsp = workspaceFolder]

\* getPackageFolder called on its own, up to the first await of its upward
\* search: path.dirname(url.fsPath) is the first directory tested
GetPackageFolderSearch(s) ==
    LET url == s.t.uri.path
        folder == FindFolder(s.folders, s.heap, url)
        workspaceFolder == getWorkspaceFolder(s.wsf, url)
        s1 == [s EXCEPT !.lookup = [made |-> TRUE, url |-> url,
                                    result |-> folder]]
    IN IF folder # UndefinedRef \/ workspaceFolder = NoPath THEN Ret(s1)
       ELSE Goto([s1 EXCEPT !.t.wsp = workspaceFolder, !.t.dir = dirname(url),
                            !.t.packagePath = NoPath],
                 "gpf_valid")

\* The upward search of getPackageFolder, one directory at a time: from the
\* answer of isValidWorkspaceFolder(currentFolder) to the test of the next
\* directory, or to the return when currentFolder is the workspace path.
SearchParent(s) ==
    LET t == s.t
        s1 == IF isValidWorkspaceFolder(t.dir)
              THEN [s EXCEPT !.t.packagePath = t.dir] ELSE s
    IN IF t.dir = t.wsp
       THEN Ret([s1 EXCEPT !.upward = [made |-> TRUE, url |-> t.uri.path,
                                       workspace |-> t.wsp,
                                       result |-> s1.t.packagePath]])
       ELSE Goto([s1 EXCEPT !.t.dir = dirname(t.dir)], "gpf_valid")

\* focusPackageUri that registers and focuses the package folder it finds
\* whether initialisation has finished or not
FocusPackageUriResume_NoDefer(s) ==
    LET t == s.t
        s0 == [s EXCEPT !.t.pk = "none", !.t.pf = UndefinedRef,
                        !.t.wsp = NoPath, !.t.uri = NoUri,
                        !.upward = IF t.pk = "search"
                                   THEN [made |-> TRUE, url |-> t.uri.path,
                                         workspace |-> t.wsp,
                                         result |-> SearchUp(t.uri.path, t.wsp)]
                                   ELSE @]
    IN
    IF t.pk = "folder"
    THEN Call([s0 EXCEPT !.t.target = t.pf], "focusFolder", "fpu_clear")
    ELSE LET packageFolder == IF t.pk = "search"
                              THEN SearchUp(t.uri.path, t.wsp) ELSE NoPath
         IN IF packageFolder = NoPath
            THEN Goto([s0 EXCEPT !.t.target = NullRef], "focusFolder")
            ELSE LET workspaceFolder == getWorkspaceFolder(s.wsf, packageFolder)
                 IN IF workspaceFolder = NoPath THEN RetTick(s0)
                    ELSE Call([s0 EXCEPT !.t.ws = workspaceFolder,
                                         !.t.dir = packageFolder],
                              "unfocusCurrentFolder", "fpu_add")

\* focusPackageUri, from the result of getPackageFolder on
FocusPackageUriResume(s) ==
    LET t == s.t
        \* the locals of getPackageFolder are dead from here on
        s0 == [s EXCEPT !.t.pk = "none", !.t.pf = UndefinedRef,
                        !.t.wsp = NoPath, !.t.uri = NoUri,
                        !.upward = IF t.pk = "search"
                                   THEN [made |-> TRUE, url |-> t.uri.path,
                                         workspace |-> t.wsp,
                                         result |-> SearchUp(t.uri.path, t.wsp)]
                                   ELSE @]
    IN
    IF t.pk = "folder"
    THEN Call([s0 EXCEPT !.t.target = t.pf], "focusFolder", "fpu_clear")
    ELSE LET packageFolder == IF t.pk = "search"
                              THEN SearchUp(t.uri.path, t.wsp) ELSE NoPath
         IN IF packageFolder = NoPath
            THEN Goto([s0 EXCEPT !.t.target = NullRef], "focusFolder")
            ELSE IF ~s.fin
            THEN RetTick([s0 EXCEPT !.last = t.uri])
            ELSE LET workspaceFolder == getWorkspaceFolder(s.wsf, packageFolder)
                 IN IF workspaceFolder = NoPath THEN RetTick(s0)
                    ELSE Call([s0 EXCEPT !.t.ws = workspaceFolder,
                                         !.t.dir = packageFolder],
                              "unfocusCurrentFolder", "fpu_add")

\* the folder addWorkspaceFolders focuses whatever the number of folders
StartupFolder_AlwaysNull(fs) == NullRef

\* The folder addWorkspaceFolders focuses when none is selected: the first
\* folder if there is only one, null otherwise
StartupFolder(fs) == IF Len(fs) = 1 THEN fs[1] ELSE NullRef

RECURSIVE Run(_)

\* Start an async function without awaiting it: it runs to its first await
\* inside the caller's block and is from then on a task of its own.
Spawn(s, child) ==
    LET r == Run([s EXCEPT !.t = child])
    IN [r EXCEPT !.t = s.t,
                 !.spawned = IF r.t.pc = "done" THEN @ ELSE Append(@, r.t)]

\* The callback removeWorkspaceFolder passes to forEach, to its first await
RemoveCallback(s, folder) ==
    Spawn(s, [NewTask EXCEPT !.pc = "rm_callback", !.origin = "remove",
                             !.fc = folder])

RECURSIVE RemoveEach(_, _, _)
RemoveEach(s, fs, workspaceFolder) ==
    IF fs = << >> THEN s
    ELSE RemoveEach(IF s.heap[Head(fs)].workspaceFolder # workspaceFolder THEN s
                    ELSE RemoveCallback(s, Head(fs)),
                    Tail(fs), workspaceFolder)

RECURSIVE FilterOut_RootOnly(_, _, _)
\* the filter that drops only the folder at the root of the workspace folder
FilterOut_RootOnly(fs, h, workspaceFolder) ==
    IF fs = << >> THEN << >>
    ELSE IF h[Head(fs)].folder # workspaceFolder
    THEN << Head(fs) >> \o FilterOut_RootOnly(Tail(fs), h, workspaceFolder)
    ELSE FilterOut_RootOnly(Tail(fs), h, workspaceFolder)

RECURSIVE FilterOut(_, _, _)
FilterOut(fs, h, workspaceFolder) ==
    IF fs = << >> THEN << >>
    ELSE IF h[Head(fs)].workspaceFolder # workspaceFolder
    THEN << Head(fs) >> \o FilterOut(Tail(fs), h, workspaceFolder)
    ELSE FilterOut(Tail(fs), h, workspaceFolder)

\* One instruction of the running task.
Exec(s) ==
    LET t == s.t
        pc == s.t.pc
    IN
    CASE pc = "addWorkspaceFolders" ->
           Goto([s EXCEPT !.t.wsq = s.wsf], "awfs_loop")
      [] pc = "awfs_loop" ->
           IF t.wsq = << >> THEN Goto(s, "awfs_after")
           ELSE Call([s EXCEPT !.t.ws = Head(t.wsq), !.t.wsq = Tail(t.wsq)],
                     "addWorkspaceFolder", "awfs_loop")
      [] pc = "awfs_after" ->
           IF s.cur = UndefinedRef
           THEN Call([s EXCEPT !.t.target = StartupFolder(s.folders)],
                     "focusFolder", "initialisationComplete")
           ELSE Goto(s, "initialisationComplete")
      [] pc = "initialisationComplete" ->
           LET s1 == [s EXCEPT !.fin = TRUE]
               s2 == IF s1.last # NoUri
                     THEN [Spawn(s1, [NewTask EXCEPT !.pc = "focusUri",
                                                     !.origin = "replay",
                                                     !.uri = s1.last])
                             EXCEPT !.last = NoUri]
                     ELSE s1
           IN Ret(s2)
      [] pc = "onDidChangeWorkspaceFolders" -> Goto(s, "odc_add")
      [] pc = "odc_add" ->
           IF t.wsq = << >> THEN Goto(s, "odc_rm")
           ELSE Call([s EXCEPT !.t.ws = Head(t.wsq), !.t.wsq = Tail(t.wsq)],
                     "addWorkspaceFolder", "odc_add")
      [] pc = "odc_rm" ->
           IF t.rmq = << >> THEN Ret(s)
           ELSE Call([s EXCEPT !.t.ws = Head(t.rmq), !.t.rmq = Tail(t.rmq)],
                     "removeWorkspaceFolder", "odc_rm")
      [] pc = "addWorkspaceFolder" ->
           Goto([s EXCEPT !.t.todo = << t.ws >>], "sfp_loop")
      [] pc = "sfp_loop" ->
           IF t.todo = << >>
           THEN Goto([s EXCEPT !.t.dir = NoPath, !.t.newfc = UndefinedRef,
                               !.t.found = << >>],
                     "awf_focus")
           ELSE Goto([s EXCEPT !.t.dir = Head(t.todo), !.t.todo = Tail(t.todo),
                               !.t.newfc = UndefinedRef],
                     "sfp_valid")
      [] pc = "sfp_valid_r" ->
           IF isValidWorkspaceFolder(t.dir)
           THEN Call([s EXCEPT !.t.found = Append(@, t.dir)],
                     "addPackageFolder", "sfp_loop")
           ELSE IF ~s.search THEN Goto(s, "sfp_loop")
           ELSE Goto([s EXCEPT !.t.todo = SubDirs(t.dir, readDirectory(t.dir)) \o @],
                     "sfp_loop")
      [] pc = "awf_focus" ->
           IF getActiveWorkspaceFolder(s.wsf, s.editor) = t.ws
           THEN Call([s EXCEPT !.t.uri = s.editor], "focusUri", "awf_ret")
           ELSE Goto(s, "awf_ret")
      [] pc = "awf_ret" -> RetTick([s EXCEPT !.t.ws = NoPath, !.t.dir = NoPath])
      [] pc = "focusUri" -> FocusUriEntry(s)
      [] pc = "focusPackageUri" -> GetPackageFolderEntry(s)
      [] pc = "gpf_r" -> FocusPackageUriResume(s)
      [] pc = "getPackageFolder" -> GetPackageFolderSearch(s)
      [] pc = "gpf_valid_r" -> SearchParent(s)
      [] pc = "fpu_clear" -> RetTick([s EXCEPT !.last = NoUri])
      [] pc = "fpu_add" -> Call(s, "addPackageFolder", "fpu_focus")
      [] pc = "fpu_focus" ->
           Goto([s EXCEPT !.t.target = t.newfc, !.t.newfc = UndefinedRef,
                          !.t.ws = NoPath, !.t.dir = NoPath],
                "focusFolder")
      [] pc = "unfocusCurrentFolder" ->
           IF s.cur # UndefinedRef
           THEN Call([s EXCEPT !.t.fc = s.cur, !.t.ev = "unfocus"],
                     "fireEvent", "ucf_set")
           ELSE Goto(s, "ucf_set")
      [] pc = "ucf_set" -> Goto([s EXCEPT !.cur = UndefinedRef], "tick")
      [] pc = "addPackageFolder" ->
           LET index == FindIndex(s.folders, s.heap, t.dir)
           IN IF index # 0
              THEN RetTick([s EXCEPT !.t.newfc = s.folders[index]])
              ELSE Goto(s, "apf_create")
      [] pc = "apf_create_r" ->
           LET folderContext == Len(s.heap) + 1
           IN Goto([s EXCEPT !.heap = Append(@, [folder |-> t.dir,
                                                 workspaceFolder |-> t.ws]),
                             !.removal = Append(@, NoRemoval),
                             !.folders = Append(@, folderContext),
                             !.t.newfc = folderContext,
                             !.t.fc = folderContext, !.t.ev = "add"],
                   "fireEvent")
      [] pc = "focusFolder" -> FocusFolderEntry(s)
      [] pc = "ff_set" ->
           Goto([s EXCEPT !.cur = t.target, !.t.fc = t.target, !.t.ev = "focus"],
                "fireEvent")
      [] pc = "fireEvent" -> Goto([s EXCEPT !.t.i = 0, !.t.seen = << >>], "fire_call")
      [] pc = "fire_call" ->
           IF NextObserver(s.obs, t.i) = 0
           THEN LET \* the locals of fireEvent, and after the focus event
                    \* those of focusFolder, are dead
                    s1 == [s EXCEPT !.t.i = 0, !.t.fc = UndefinedRef, !.t.ev = "",
                                    !.t.seen = << >>,
                                    !.t.target = IF t.ev = "focus"
                                                 THEN UndefinedRef ELSE @,
                                    !.t.prev = IF t.ev = "focus"
                                               THEN UndefinedRef ELSE @]
                IN IF t.i = 0 THEN RetTick(s1) ELSE Ret(s1)
           ELSE LET o == NextObserver(s.obs, t.i)
                IN Goto([Notify(s, o) EXCEPT !.t.i = o, !.t.seen = Append(@, o)],
                        "fire_wait")
      [] pc = "fire_wait_r" -> Goto(s, "fire_call")
      [] pc = "removeWorkspaceFolder" ->
           LET s1 == RemoveEach(s, s.folders, t.ws)
           IN RetTick([s1 EXCEPT !.folders = FilterOut(@, s1.heap, t.ws)])
      [] pc = "rm_callback" ->
           LET sole == \A i \in 1..Len(s.folders) :
                           s.heap[s.folders[i]].workspaceFolder
                               = s.heap[t.fc].workspaceFolder
                           => s.folders[i] = t.fc
               s1 == IF s.cur = t.fc
                     THEN Spawn([s EXCEPT !.removal[t.fc].focused = TRUE,
                                          !.removal[t.fc].sole = sole],
                                [NewTask EXCEPT !.pc = "focusFolder",
                                                !.origin = "removeFocused",
                                                !.target = NullRef])
                     ELSE s
           IN Goto([s1 EXCEPT !.t.rq = RemoveOrder(s.obs), !.t.ev = "remove"],
                   "rm_call")
      [] pc = "rm_call" ->
           IF t.rq = << >>
           THEN Ret([s EXCEPT !.disposed = @ \cup {t.fc}])
           ELSE Goto([Notify(s, Head(t.rq)) EXCEPT !.t.rq = Tail(@)], "rm_wait")
      [] pc = "rm_wait_r" -> Goto(s, "rm_call")
      [] pc = "tick_r" -> Ret(s)

\* Run the task to its next await or to its end.  The state is bound to x so
\* that it is computed once for each instruction.
Run(s) ==
    CHOOSE r \in {IF x.t.pc \in Suspended \cup {"done"} THEN x ELSE Run(Exec(x)) :
                      x \in {s}} : TRUE

\* -------------------------------------------------------- SwiftTaskProvider
buildAllName == "Build All"

\* the cwd "${workspaceFolder}" of a task of tasks.json
CwdWorkspaceFolder == << "${workspaceFolder}" >>

RECURSIVE Join(_, _)
\* Array.prototype.join
Join(q, sep) ==
    IF q = << >> THEN ""
    ELSE IF Len(q) = 1 THEN q[1]
    ELSE q[1] \o sep \o Join(Tail(q), sep)

\* FolderContext.relativePath of the FolderContext f: the path of its folder
\* relative to its workspace folder
relativePath(f) ==
    Join(SubSeq(f.folder, Len(f.workspaceFolder) + 1, Len(f.folder)), "/")

\* swiftPackage.foundPackage: the Package.swift of the folder was loaded
foundPackage(d) == d \in HasPackageSwift

\* swiftPackage.executableProducts: the names of the executable products the
\* Package.swift of each folder declares
executableProducts(d) ==
    IF d = Outer THEN << "app" >>
    ELSE IF d = << "ws", "Packages" >> THEN << "tool", "gen" >>
    ELSE << >>

\* The name of the Build All task of f, as getBuildAllTask and
\* createBuildAllTask compute it
buildTaskName(f) ==
    IF relativePath(f) # "" THEN buildAllName \o " (" \o relativePath(f) \o ")"
    ELSE buildAllName

\* createSwiftTask: the task has type and source "swift" and no prefix in its
\* detail; its group is not marked as the default
createSwiftTask(args, name, config) ==
    [source |-> "swift", type |-> "swift", scope |-> config.scope,
     name |-> name, cwd |-> config.cwd, group |-> config.group,
     isDefault |-> FALSE, detail |-> "swift " \o Join(args, " ")]

\* a Build All task that is named alike for every folder
createBuildAllTask_Unqualified(f) ==
    createSwiftTask(<< "build", "--build-tests" >>, buildAllName,
                    [group |-> "build", cwd |-> f.folder,
                     scope |-> f.workspaceFolder])

\* createBuildAllTask, for a toolchain without build options and a target
\* that is not a Darwin one
createBuildAllTask(f) ==
    createSwiftTask(<< "build", "--build-tests" >>, buildTaskName(f),
                    [group |-> "build", cwd |-> f.folder,
                     scope |-> f.workspaceFolder])

\* createBuildTasks: the debug and the release build of a product
createBuildTasks(product, f) ==
    LET buildTaskNameSuffix ==
            IF relativePath(f) # "" THEN " (" \o relativePath(f) \o ")" ELSE ""
        config == [group |-> "build", cwd |-> f.folder,
                   scope |-> f.workspaceFolder]
    IN << createSwiftTask(<< "build", "--product", product >>,
                          "Build Debug " \o product \o buildTaskNameSuffix,
                          config),
          createSwiftTask(<< "build", "-c", "release", "--product", product >>,
                          "Build Release " \o product \o buildTaskNameSuffix,
                          config) >>

\* Array.prototype.find, q being the elements that pass the test: the first
\* of them, NoTask for undefined
Find(q) == IF q = << >> THEN NoTask ELSE Head(q)

\* The tasks of tasks.json that are valid for the folder of f
WorkspaceTasks(f, fetched) ==
    SelectSeq(fetched,
              LAMBDA task :
                  /\ task.source = "Workspace"
                  /\ task.scope = f.workspaceFolder
                  /\ LET cwd == IF task.cwd = CwdWorkspaceFolder \/ task.cwd = NoPath
                                THEN f.workspaceFolder ELSE task.cwd
                     IN cwd = f.folder)

\* getBuildAllTask that does not search the generated tasks
getBuildAllTask_DeclaredOnly(f, fetched) ==
    LET workspaceTasks == WorkspaceTasks(f, fetched)
        default == Find(SelectSeq(workspaceTasks,
                        LAMBDA task : task.group = "build" /\ task.isDefault))
        named == Find(SelectSeq(workspaceTasks,
                      LAMBDA task : task.name = "swift: " \o buildTaskName(f)))
    IN IF default # NoTask THEN [task |-> default, error |-> ""]
       ELSE IF named # NoTask THEN [task |-> named, error |-> ""]
       ELSE [task |-> NoTask, error |-> "Build All Task does not exist"]

\* getBuildAllTask that looks for the task named as the generated task
\* before it looks for the default build task
getBuildAllTask_NameFirst(f, fetched) ==
    LET workspaceTasks == WorkspaceTasks(f, fetched)
        default == Find(SelectSeq(workspaceTasks,
                        LAMBDA task : task.group = "build" /\ task.isDefault))
        named == Find(SelectSeq(workspaceTasks,
                      LAMBDA task : task.name = "swift: " \o buildTaskName(f)))
        swiftTasks == SelectSeq(fetched, LAMBDA task : task.type = "swift")
        generated == Find(SelectSeq(swiftTasks,
                          LAMBDA task : /\ task.name = buildTaskName(f)
                                        /\ task.cwd = f.folder
                                        /\ task.source = "swift"))
    IN IF named # NoTask THEN [task |-> named, error |-> ""]
       ELSE IF default # NoTask THEN [task |-> default, error |-> ""]
       ELSE IF generated # NoTask THEN [task |-> generated, error |-> ""]
       ELSE [task |-> NoTask, error |-> "Build All Task does not exist"]

\* getBuildAllTask: the task it returns or the error it throws.  fetched is
\* what vscode.tasks.fetchTasks returns during the call.
getBuildAllTask(f, fetched) ==
    LET workspaceTasks == WorkspaceTasks(f, fetched)
        default == Find(SelectSeq(workspaceTasks,
                        LAMBDA task : task.group = "build" /\ task.isDefault))
        named == Find(SelectSeq(workspaceTasks,
                      LAMBDA task : task.name = "swift: " \o buildTaskName(f)))
        swiftTasks == SelectSeq(fetched, LAMBDA task : task.type = "swift")
        generated == Find(SelectSeq(swiftTasks,
                          LAMBDA task : /\ task.name = buildTaskName(f)
                                        /\ task.cwd = f.folder
                                        /\ task.source = "swift"))
    IN IF default # NoTask THEN [task |-> default, error |-> ""]
       ELSE IF named # NoTask THEN [task |-> named, error |-> ""]
       ELSE IF generated # NoTask THEN [task |-> generated, error |-> ""]
       ELSE [task |-> NoTask, error |-> "Build All Task does not exist"]

\* The state provideTasks runs on: the folders of the WorkspaceContext, the
\* focus, the task queues of the folders and the tasks collected so far.
ProviderMachine ==
    [folders |-> folders, heap |-> heap, cur |-> currentFolder,
     queue |-> taskQueue, tasks |-> << >>]

\* the task provideTasks offers instead of the build tasks of a folder
DisabledTask(f, activeOperation) ==
    [source |-> "swift", type |-> "swift", scope |-> f.workspaceFolder,
     name |-> "Build tasks disabled", cwd |-> NoPath, group |-> "build",
     isDefault |-> FALSE,
     detail |-> "While " \o activeOperation.name \o " is running."]

RECURSIVE BuildTasksOf(_, _)
\* the build tasks of the executables, in the order of the products
BuildTasksOf(executables, f) ==
    IF executables = << >> THEN << >>
    ELSE createBuildTasks(Head(executables), f) \o BuildTasksOf(Tail(executables), f)

\* the body of the loop of provideTasks that offers the build tasks of a
\* folder whatever runs on its task queue
ProvideFolder_IgnoresQueue(m, folderContext) ==
    LET f == m.heap[folderContext]
    IN IF ~foundPackage(f.folder) THEN m
       ELSE [m EXCEPT !.tasks = @ \o << createBuildAllTask(f) >>
                                  \o BuildTasksOf(executableProducts(f.folder), f)]

\* the body of the loop of provideTasks that takes the active operation off
\* the task queue when it offers the placeholder
ProvideFolder_TakesOperation(m, folderContext) ==
    LET f == m.heap[folderContext]
        activeOperation == m.queue[folderContext].activeOperation
    IN IF ~foundPackage(f.folder) THEN m
       ELSE IF activeOperation # NoOperation /\ activeOperation.group # "build"
       THEN [m EXCEPT !.tasks = Append(@, DisabledTask(f, activeOperation)),
                      !.queue[folderContext].activeOperation = NoOperation]
       ELSE [m EXCEPT !.tasks = @ \o << createBuildAllTask(f) >>
                                  \o BuildTasksOf(executableProducts(f.folder), f)]

\* The body of the loop of provideTasks, for one folder
ProvideFolder(m, folderContext) ==
    LET f == m.heap[folderContext]
        activeOperation == m.queue[folderContext].activeOperation
    IN IF ~foundPackage(f.folder) THEN m
       ELSE IF activeOperation # NoOperation /\ activeOperation.group # "build"
       THEN [m EXCEPT !.tasks = Append(@, DisabledTask(f, activeOperation))]
       ELSE [m EXCEPT !.tasks = @ \o << createBuildAllTask(f) >>
                                  \o BuildTasksOf(executableProducts(f.folder), f)]

RECURSIVE ProvideEach(_, _)
ProvideEach(m, fs) ==
    IF fs = << >> THEN m
    ELSE ProvideEach(ProvideFolder(m, Head(fs)), Tail(fs))

\* provideTasks
provideTasks(m) == IF Len(m.folders) = 0 THEN m ELSE ProvideEach(m, m.folders)

\* ---------------------------------------------------------------- actions
Live(q) == SelectSeq(q, LAMBDA t : t.pc # "done")

\* The state after a synchronous block: s is the machine state it ended in,
\* before and after the tasks it did not run.
Commit(s, before, after) ==
    /\ Len(before) + Len(Live(<< s.t >>)) + Len(after) + Len(s.spawned) <= MaxTasks
    /\ tasks' = before \o Live(<< s.t >>) \o after \o s.spawned
    /\ folders' = s.folders
    /\ currentFolder' = s.cur
    /\ currentDocument' = s.doc
    /\ lastFocusUri' = s.last
    /\ initialisationFinished' = s.fin
    /\ heap' = s.heap
    /\ disposed' = s.disposed
    /\ calls' = s.calls
    /\ view' = s.view
    /\ removal' = s.removal
    /\ ffCall' = s.ffCall
    /\ lookup' = s.lookup
    /\ upward' = s.upward
    /\ observers' = s.obs
    /\ taskQueue' = [r \in 1..Len(s.heap) |->
                         IF r <= Len(taskQueue) THEN taskQueue[r] ELSE NoQueue]
    /\ provided' = NoProvided
    /\ buildAll' = NoBuildAll
    /\ finished' = NoFinished
    /\ rejected' = s.rejected
    /\ hostTasks' = hostTasks

\* A task whose await is of a promise that is already settled continues in
\* a microtask: before the host delivers another event and before any
\* file-system operation completes.
AtSettledAwait(t) == t.pc = "tick" \/ (t.pc = "gpf_wait" /\ t.pk # "search")
MicrotasksDone == \A k \in 1..Len(tasks) : ~AtSettledAwait(tasks[k])

\* The state after construction, the active editor being one of editors.
InitFrom(editors) ==
    /\ folders = << >>
    /\ currentFolder = UndefinedRef
    /\ currentDocument = NoUri
    /\ activeTextEditor \in editors
    /\ lastFocusUri = activeTextEditor
    /\ initialisationFinished = FALSE
    /\ observers = [i \in 1..NumObservers |-> i]
    /\ heap = << >>
    /\ disposed = {}
    /\ tasks = << >>
    /\ workspaceFolders \in {<< >>, << WsRoot >>, << Inner >>,
                             << WsRoot, Inner >>, << Inner, WsRoot >>}
    /\ searchSubfoldersForPackages \in BOOLEAN
    /\ started = FALSE
    /\ hostEvents = 0
    /\ calls = << >>
    /\ view = [o \in 1..NumObservers |-> NoView]
    /\ removal = << >>
    /\ ffCall = NoCall
    /\ lookup = NoLookup
    /\ upward = NoSearch
    /\ handler = ""
    /\ taskQueue = << >>
    /\ provided = NoProvided
    /\ buildAll = NoBuildAll
    /\ finished = NoFinished
    /\ rejected = NoRejected

\* no task is declared in tasks.json and none has been generated
NoHostTasks == hostTasks = << >>

Init == InitFrom(Uris \cup {NoUri}) /\ NoHostTasks

\* The extension calls addWorkspaceFolders once, after setupEventListeners.
AddWorkspaceFolders ==
    /\ ~started
    /\ MicrotasksDone
    /\ started' = TRUE
    /\ Commit(Run(Machine([NewTask EXCEPT !.pc = "addWorkspaceFolders",
                                            !.origin = "init"])), tasks, << >>)
    /\ handler' = "addWorkspaceFolders"
    /\ UNCHANGED << workspaceFolders, activeTextEditor,
                    searchSubfoldersForPackages, hostEvents >>

\* vscode.window.onDidChangeActiveTextEditor: the handler awaits
\* focusTextEditor(editor).
OnDidChangeActiveTextEditor(editor) ==
    /\ started
    /\ MicrotasksDone
    /\ hostEvents < MaxHostEvents
    /\ editor # activeTextEditor
    /\ activeTextEditor' = editor
    /\ hostEvents' = hostEvents + 1
    /\ Commit(Run([Machine([NewTask EXCEPT !.pc = "focusUri", !.origin = "editor",
                                            !.uri = editor])
                     EXCEPT !.editor = editor]), tasks, << >>)
    /\ handler' = "onDidChangeActiveTextEditor"
    /\ UNCHANGED << workspaceFolders, searchSubfoldersForPackages, started >>

\* vscode.workspace.onDidChangeWorkspaceFolders: the handler calls
\* onDidChangeWorkspaceFolders(event).
OnDidChangeWorkspaceFolders(added, removed) ==
    /\ started
    /\ MicrotasksDone
    /\ hostEvents < MaxHostEvents
    /\ \A i \in 1..Len(added) : \A j \in 1..Len(workspaceFolders) :
           added[i] # workspaceFolders[j]
    /\ \A i \in 1..Len(removed) : \E j \in 1..Len(workspaceFolders) :
           removed[i] = workspaceFolders[j]
    /\ LET wsf == SelectSeq(workspaceFolders,
                            LAMBDA w : \A i \in 1..Len(removed) : removed[i] # w)
                  \o added
       IN /\ workspaceFolders' = wsf
          /\ Commit(Run([Machine([NewTask EXCEPT
                                    !.pc = "onDidChangeWorkspaceFolders",
                                    !.origin = "workspace",
                                    !.wsq = added, !.rmq = removed])
                           EXCEPT !.wsf = wsf]), tasks, << >>)
    /\ hostEvents' = hostEvents + 1
    /\ handler' = "onDidChangeWorkspaceFolders"
    /\ UNCHANGED << activeTextEditor, searchSubfoldersForPackages, started >>

Resume(k) ==
    /\ Commit(Run(Machine([tasks[k] EXCEPT !.pc = IF @ = "gpf_wait" THEN "gpf_r"
                                                  ELSE @ \o "_r"])),
              SubSeq(tasks, 1, k - 1), SubSeq(tasks, k + 1, Len(tasks)))
    /\ handler' = ""
    /\ UNCHANGED << workspaceFolders, activeTextEditor,
                    searchSubfoldersForPackages, started, hostEvents >>

\* The disposable observeFolders returned for the observer o is disposed.
Dispose(o) ==
    /\ \E k \in 1..Len(observers) : observers[k] = o
    /\ observers' = SelectSeq(observers, LAMBDA x : x # o)
    /\ calls' = << >>
    /\ handler' = "dispose"
    /\ provided' = NoProvided
    /\ buildAll' = NoBuildAll
    /\ finished' = NoFinished
    /\ rejected' = NoRejected
    /\ UNCHANGED << folders, currentFolder, currentDocument, lastFocusUri,
                    initialisationFinished, heap, disposed, tasks,
                    workspaceFolders, activeTextEditor,
                    searchSubfoldersForPackages, started, hostEvents, view,
                    removal, ffCall, lookup, upward, hostTasks, taskQueue >>

\* The promise returned by an observer settles.
ObserverReturns(k) ==
    /\ tasks[k].pc \in {"fire_wait", "rm_wait"}
    /\ Resume(k)

\* The promise returned by an observer is rejected, or the observer throws.
ObserverThrows(k) ==
    /\ tasks[k].pc = "fire_wait"
    /\ Commit(Run(Throw([Machine(tasks[k])
                            EXCEPT !.rejected = [made |-> TRUE,
                                                 ev |-> tasks[k].ev,
                                                 fc |-> tasks[k].fc,
                                                 obs |-> tasks[k].i,
                                                 stack |-> tasks[k].stack,
                                                 frames |-> << >>]])),
              SubSeq(tasks, 1, k - 1), SubSeq(tasks, k + 1, Len(tasks)))
    /\ handler' = ""
    /\ UNCHANGED << workspaceFolders, activeTextEditor,
                    searchSubfoldersForPackages, started, hostEvents >>

\* The promise of FolderContext.create is rejected: the package of the
\* folder could not be loaded.  addPackageFolder has no try statement.
CreateRejects(k) ==
    /\ MicrotasksDone
    /\ tasks[k].pc = "apf_create"
    /\ Commit(Run(Throw([Machine(tasks[k])
                            EXCEPT !.rejected = [made |-> TRUE,
                                                 ev |-> "",
                                                 fc |-> UndefinedRef,
                                                 obs |-> 0,
                                                 stack |-> tasks[k].stack,
                                                 frames |-> << >>]])),
              SubSeq(tasks, 1, k - 1), SubSeq(tasks, k + 1, Len(tasks)))
    /\ handler' = ""
    /\ UNCHANGED << workspaceFolders, activeTextEditor,
                    searchSubfoldersForPackages, started, hostEvents >>

\* A file-system operation finishes: pathExists, readDirectory, the search of
\* getPackageFolder, the loading of the package in FolderContext.create.
FileSystemReturns(k) ==
    /\ MicrotasksDone
    /\ \/ tasks[k].pc \in {"sfp_valid", "apf_create", "gpf_valid"}
       \/ tasks[k].pc = "gpf_wait" /\ tasks[k].pk = "search"
    /\ Resume(k)

\* An await of a promise that is already settled continues.
AwaitContinues(k) ==
    /\ AtSettledAwait(tasks[k])
    /\ Resume(k)

Next ==
    \/ AddWorkspaceFolders
    \/ \E editor \in Uris \cup {NoUri} : OnDidChangeActiveTextEditor(editor)
    \/ \E w \in WsCandidates : OnDidChangeWorkspaceFolders(<< w >>, << >>)
    \/ \E w \in WsCandidates : OnDidChangeWorkspaceFolders(<< >>, << w >>)
    \/ \E k \in 1..Len(tasks) : ObserverReturns(k)
    \/ \E k \in 1..Len(tasks) : FileSystemReturns(k)
    \/ \E k \in 1..Len(tasks) : AwaitContinues(k)

Spec == Init /\ [][Next]_vars

\* One start-up configuration of the above: the workspace root with the
\* search of sub-folders on, with or without the nested folder as a second
\* workspace folder, and a file of the nested folder in the active editor.
\* Every folder of the universe gets registered and every handler runs, and
\* the state space stays small enough for a further host event, task and
\* observer.
InitNested ==
    /\ Init
    /\ activeTextEditor = FileB
    /\ searchSubfoldersForPackages
    /\ workspaceFolders \in {<< WsRoot >>, << WsRoot, Inner >>}

SpecNested == InitNested /\ [][Next]_vars

\* Start-up of the nested folder and the workspace root with the search of
\* sub-folders on, so that two folders are registered, changes of the active
\* editor and disposals of observers.
InitObservers ==
    /\ Init
    /\ searchSubfoldersForPackages
    /\ workspaceFolders = << Inner, WsRoot >>

NextObservers ==
    \/ AddWorkspaceFolders
    \/ \E editor \in Uris \cup {NoUri} : OnDidChangeActiveTextEditor(editor)
    \/ \E o \in 1..NumObservers : Dispose(o)
    \/ \E k \in 1..Len(tasks) : ObserverReturns(k)
    \/ \E k \in 1..Len(tasks) : FileSystemReturns(k)
    \/ \E k \in 1..Len(tasks) : AwaitContinues(k)

SpecObservers == InitObservers /\ [][NextObservers]_vars

\* The same start-up and changes of the active editor, with observers that
\* may throw.
NextThrow ==
    \/ AddWorkspaceFolders
    \/ \E editor \in Uris \cup {NoUri} : OnDidChangeActiveTextEditor(editor)
    \/ \E k \in 1..Len(tasks) : ObserverReturns(k)
    \/ \E k \in 1..Len(tasks) : ObserverThrows(k)
    \/ \E k \in 1..Len(tasks) : FileSystemReturns(k)
    \/ \E k \in 1..Len(tasks) : AwaitContinues(k)

SpecThrow == InitObservers /\ [][NextThrow]_vars

\* Every host event of Spec, with observers that may throw and folders
\* whose creation may fail.
NextFail ==
    \/ Next
    \/ \E k \in 1..Len(tasks) : ObserverThrows(k)
    \/ \E k \in 1..Len(tasks) : CreateRejects(k)

SpecFail == Init /\ [][NextFail]_vars

\* Start-up alone, for every file the editor may show: the host delivers no
\* event, so that each upward search of getPackageFolder runs on folders
\* that only start-up has registered.
InitSearch == InitFrom(SearchUris) /\ NoHostTasks

NextSearch ==
    \/ AddWorkspaceFolders
    \/ \E k \in 1..Len(tasks) : ObserverReturns(k)
    \/ \E k \in 1..Len(tasks) : FileSystemReturns(k)
    \/ \E k \in 1..Len(tasks) : AwaitContinues(k)

SpecSearch == InitSearch /\ [][NextSearch]_vars

\* Start-up alone where every promise settles: an observer returns, a
\* file-system operation finishes and a continuation runs, each within
\* finite time.
FairSearch == SpecSearch /\ WF_vars(NextSearch)

\* getPackageFolder alone, before any folder is registered, for files of the
\* workspace folders, the workspace folders themselves and a file outside
\* them; one search at a time.
SearchArguments == SearchUris \cup {DirRoot, DirInner, FileTmp}

GetPackageFolder(url) ==
    /\ tasks = << >>
    /\ Commit(Run(Machine([NewTask EXCEPT !.pc = "getPackageFolder",
                                           !.origin = "search",
                                           !.uri = url])), << >>, << >>)
    /\ handler' = "getPackageFolder"
    /\ UNCHANGED << workspaceFolders, activeTextEditor,
                    searchSubfoldersForPackages, started, hostEvents >>

InitUpward == InitFrom({NoUri}) /\ NoHostTasks

NextUpward ==
    \/ \E url \in SearchArguments : GetPackageFolder(url)
    \/ \E k \in 1..Len(tasks) : FileSystemReturns(k)

SpecUpward == InitUpward /\ [][NextUpward]_vars

\* The same where every test of a directory is answered within finite time.
FairUpward ==
    SpecUpward /\ WF_vars(\E k \in 1..Len(tasks) : FileSystemReturns(k))

\* Start-up with a file of /ws/Packages in the editor, so that the workspace
\* folder /ws gets a second package folder, and removals of workspace
\* folders.
InitRemove == InitFrom({FileDep}) /\ NoHostTasks

NextRemove ==
    \/ AddWorkspaceFolders
    \/ \E w \in WsCandidates : OnDidChangeWorkspaceFolders(<< >>, << w >>)
    \/ \E k \in 1..Len(tasks) : ObserverReturns(k)
    \/ \E k \in 1..Len(tasks) : FileSystemReturns(k)
    \/ \E k \in 1..Len(tasks) : AwaitContinues(k)

SpecRemove == InitRemove /\ [][NextRemove]_vars

\* ------------------------------------------------- getBuildAllTask alone
\* The tasks the host may return: tasks of tasks.json (source "Workspace")
\* and tasks a provider has generated (source "swift").
TaskPool ==
    { [source |-> "Workspace", type |-> "shell", scope |-> WsRoot,
       name |-> "Compile", cwd |-> Outer, group |-> "build",
       isDefault |-> TRUE, detail |-> ""],
      [source |-> "Workspace", type |-> "shell", scope |-> Inner,
       name |-> "Compile", cwd |-> Outer, group |-> "build",
       isDefault |-> TRUE, detail |-> ""],
      [source |-> "Workspace", type |-> "shell", scope |-> Inner,
       name |-> "Make", cwd |-> CwdWorkspaceFolder, group |-> "build",
       isDefault |-> TRUE, detail |-> ""],
      [source |-> "Workspace", type |-> "swift", scope |-> WsRoot,
       name |-> "swift: Build All (outer)", cwd |-> Outer, group |-> "build",
       isDefault |-> FALSE, detail |-> ""],
      [source |-> "Workspace", type |-> "swift", scope |-> WsRoot,
       name |-> "swift: Build All (outer)", cwd |-> NoPath, group |-> "",
       isDefault |-> FALSE, detail |-> ""],
      [source |-> "swift", type |-> "swift", scope |-> WsRoot,
       name |-> "Build All (outer)", cwd |-> Outer, group |-> "build",
       isDefault |-> FALSE, detail |-> "swift build --build-tests"],
      [source |-> "swift", type |-> "swift", scope |-> Inner,
       name |-> "Build All", cwd |-> Inner, group |-> "build",
       isDefault |-> FALSE, detail |-> "swift build --build-tests"] }

HostTaskLists == UNION {[1..n -> TaskPool] : n \in 0..MaxHostTasks}

\* A command of the extension calls getBuildAllTask for a folder.
GetBuildAllTask(i) ==
    /\ i \in 1..Len(folders)
    /\ LET r == getBuildAllTask(heap[folders[i]], hostTasks)
       IN buildAll' = [made |-> TRUE, folder |-> folders[i],
                       task |-> r.task, error |-> r.error]
    /\ provided' = NoProvided
    /\ finished' = NoFinished
    /\ rejected' = NoRejected
    /\ UNCHANGED << folders, currentFolder, currentDocument, lastFocusUri,
                    initialisationFinished, observers, heap, disposed, tasks,
                    workspaceFolders, activeTextEditor,
                    searchSubfoldersForPackages, started, hostEvents, calls,
                    view, removal, ffCall, lookup, upward, handler, hostTasks,
                    taskQueue >>

\* Start-up with any of the task lists, a file of a package in the editor,
\* and calls of getBuildAllTask.
InitBuildAll == InitFrom({FileB, FileDep}) /\ hostTasks \in HostTaskLists

NextBuildAll ==
    \/ AddWorkspaceFolders
    \/ \E k \in 1..Len(tasks) : ObserverReturns(k)
    \/ \E k \in 1..Len(tasks) : FileSystemReturns(k)
    \/ \E k \in 1..Len(tasks) : AwaitContinues(k)
    \/ \E i \in 1..Len(folders) : GetBuildAllTask(i)

SpecBuildAll == InitBuildAll /\ [][NextBuildAll]_vars

\* ---------------------------------------------------- provideTasks alone
\* The operations a command of the extension may run on a task queue:
\* resolve is exclusive, a build is not, neither bypasses the queue.
Operations ==
    { [name |-> "Resolve Package Dependencies", group |-> "", exclusive |-> TRUE,
       bypassesQueue |-> FALSE],
      [name |-> "Build All", group |-> "build", exclusive |-> FALSE,
       bypassesQueue |-> FALSE] }

\* the terminal states of an operation
TerminalStates == {"completed", "failed", "cancelled"}

\* the operations running on a queue: the active one and those started
\* next to it, in the order they started
Active(q) ==
    (IF q.activeOperation = NoOperation THEN << >> ELSE << q.activeOperation >>)
        \o q.concurrent

\* the queue with running as its running operations
WithActive(q, running) ==
    [q EXCEPT !.activeOperation = IF running = << >> THEN NoOperation
                                  ELSE Head(running),
              !.concurrent = IF running = << >> THEN << >> ELSE Tail(running)]

\* the sequence q without its n-th element
Without(q, n) == SubSeq(q, 1, n - 1) \o SubSeq(q, n + 1, Len(q))

\* a submit that starts an operation only on an idle queue
submit_QueuesAll(q, op) ==
    IF Active(q) = << >> THEN [q EXCEPT !.activeOperation = op]
    ELSE [q EXCEPT !.pending = Append(@, op)]

\* submit(op): op joins the pending list; it starts at once if the queue is
\* idle, or if the active operation is not exclusive and op bypasses the
\* queue, and stays pending otherwise.
submit(q, op) ==
    IF Active(q) = << >> THEN [q EXCEPT !.activeOperation = op]
    ELSE IF ~q.activeOperation.exclusive /\ op.bypassesQueue
         THEN [q EXCEPT !.concurrent = Append(@, op)]
         ELSE [q EXCEPT !.pending = Append(@, op)]

\* a pending operation may start at a completion if it is the only pending
\* operation or does not require exclusivity while an operation still runs
Eligible(q, k) ==
    \/ Len(q.pending) = 1
    \/ ~(q.pending[k].exclusive /\ Active(q) # << >>)

\* a scheduling rule that starts the newest of the pending operations that
\* may start
scheduleNext_Newest(q) ==
    LET eligible == {k \in 1..Len(q.pending) : Eligible(q, k)}
    IN IF eligible = {} THEN q
       ELSE LET k == CHOOSE m \in eligible : \A j \in eligible : m >= j
            IN [WithActive(q, Active(q) \o << q.pending[k] >>)
                    EXCEPT !.pending = Without(q.pending, k)]

\* Scheduling rule: the first pending operation, in the order of submission,
\* that may start does; if there is none the queue stays as it is.
scheduleNext(q) ==
    LET eligible == {k \in 1..Len(q.pending) : Eligible(q, k)}
    IN IF eligible = {} THEN q
       ELSE LET k == CHOOSE m \in eligible : \A j \in eligible : m <= j
            IN [WithActive(q, Active(q) \o << q.pending[k] >>)
                    EXCEPT !.pending = Without(q.pending, k)]

\* the n-th running operation reaches a terminal state: it leaves the
\* queue and the scheduling rule is applied
complete(q, n) == scheduleNext(WithActive(q, Without(Active(q), n)))

\* An operation is submitted to the task queue of a folder.
QueueOperation(i, op) ==
    /\ i \in 1..Len(folders)
    /\ Len(taskQueue[folders[i]].pending) < MaxPending
    /\ taskQueue' = [taskQueue EXCEPT ![folders[i]] = submit(@, op)]
    /\ provided' = NoProvided
    /\ buildAll' = NoBuildAll
    /\ finished' = NoFinished
    /\ rejected' = NoRejected
    /\ UNCHANGED << folders, currentFolder, currentDocument, lastFocusUri,
                    initialisationFinished, observers, heap, disposed, tasks,
                    workspaceFolders, activeTextEditor,
                    searchSubfoldersForPackages, started, hostEvents, calls,
                    view, removal, ffCall, lookup, upward, handler, hostTasks >>

\* A running operation of a task queue reaches a terminal state.
OperationCompletes(i, n, state) ==
    /\ i \in 1..Len(folders)
    /\ n \in 1..Len(Active(taskQueue[folders[i]]))
    /\ taskQueue' = [taskQueue EXCEPT ![folders[i]] = complete(@, n)]
    /\ provided' = NoProvided
    /\ buildAll' = NoBuildAll
    /\ finished' = [made |-> TRUE, state |-> state]
    /\ rejected' = NoRejected
    /\ UNCHANGED << folders, currentFolder, currentDocument, lastFocusUri,
                    initialisationFinished, observers, heap, disposed, tasks,
                    workspaceFolders, activeTextEditor,
                    searchSubfoldersForPackages, started, hostEvents, calls,
                    view, removal, ffCall, lookup, upward, handler, hostTasks >>

\* The host asks the task provider for its tasks.
ProvideTasks ==
    /\ LET m == provideTasks(ProviderMachine)
       IN /\ provided' = [made |-> TRUE, tasks |-> m.tasks]
          /\ folders' = m.folders
          /\ heap' = m.heap
          /\ currentFolder' = m.cur
          /\ taskQueue' = m.queue
    /\ buildAll' = NoBuildAll
    /\ finished' = NoFinished
    /\ rejected' = NoRejected
    /\ UNCHANGED << currentDocument, lastFocusUri, initialisationFinished,
                    observers, disposed, tasks, workspaceFolders,
                    activeTextEditor, searchSubfoldersForPackages, started,
                    hostEvents, calls, view, removal, ffCall, lookup, upward,
                    handler, hostTasks >>

\* Start-up, operations on the task queues and calls of provideTasks.  An
\* operation is submitted to a queue with nothing pending: provideTasks
\* reads the active operation only.
InitProvide == InitFrom({FileA, FileB, FileDep}) /\ NoHostTasks

NextProvide ==
    \/ AddWorkspaceFolders
    \/ \E k \in 1..Len(tasks) : ObserverReturns(k)
    \/ \E k \in 1..Len(tasks) : FileSystemReturns(k)
    \/ \E k \in 1..Len(tasks) : AwaitContinues(k)
    \/ \E i \in 1..Len(folders) : \E op \in Operations :
          /\ taskQueue[folders[i]].pending = << >>
          /\ QueueOperation(i, op)
    \/ \E i \in 1..Len(folders) : OperationCompletes(i, 1, "completed")
    \/ ProvideTasks

SpecProvide == InitProvide /\ [][NextProvide]_vars

\* --------------------------------- getBuildAllTask on the generated tasks
\* The tasks of tasks.json the host may hold: none or one of the pool.
DeclaredLists ==
    {<< >>} \cup {<< task >> : task \in {t \in TaskPool : t.source = "Workspace"}}

\* vscode.tasks.fetchTasks collects the tasks of tasks.json and the tasks
\* provideTasks returns, in either order.
FetchTasks(declared, declaredFirst) ==
    /\ LET generated == provideTasks(ProviderMachine).tasks
       IN hostTasks' = IF declaredFirst THEN declared \o generated
                       ELSE generated \o declared
    /\ provided' = NoProvided
    /\ buildAll' = NoBuildAll
    /\ finished' = NoFinished
    /\ rejected' = NoRejected
    /\ UNCHANGED << folders, currentFolder, currentDocument, lastFocusUri,
                    initialisationFinished, observers, heap, disposed, tasks,
                    workspaceFolders, activeTextEditor,
                    searchSubfoldersForPackages, started, hostEvents, calls,
                    view, removal, ffCall, lookup, upward, handler, taskQueue >>

\* Start-up with a file of /ws/Packages in the editor, the host collecting
\* the tasks, and calls of getBuildAllTask on what it has collected.
InitGenerated == InitFrom({FileDep}) /\ NoHostTasks

NextGenerated ==
    \/ AddWorkspaceFolders
    \/ \E k \in 1..Len(tasks) : ObserverReturns(k)
    \/ \E k \in 1..Len(tasks) : FileSystemReturns(k)
    \/ \E k \in 1..Len(tasks) : AwaitContinues(k)
    \/ \E declared \in DeclaredLists : \E declaredFirst \in BOOLEAN :
          FetchTasks(declared, declaredFirst)
    \/ \E i \in 1..Len(folders) : GetBuildAllTask(i)

SpecGenerated == InitGenerated /\ [][NextGenerated]_vars

\* ------------------------------------------------------- one task queue
\* The operations submitted to the queue of a folder: every mix of the
\* exclusive and bypassesQueue flags, three of them with neither flag.
QueueOperations ==
    { [name |-> "Build All", group |-> "build", exclusive |-> FALSE,
       bypassesQueue |-> FALSE],
      [name |-> "Build Debug app", group |-> "build", exclusive |-> FALSE,
       bypassesQueue |-> FALSE],
      [name |-> "Build Release app", group |-> "build", exclusive |-> FALSE,
       bypassesQueue |-> FALSE],
      [name |-> "Resolve Package Dependencies", group |-> "", exclusive |-> TRUE,
       bypassesQueue |-> FALSE],
      [name |-> "Rebuild", group |-> "build", exclusive |-> FALSE,
       bypassesQueue |-> TRUE],
      [name |-> "Reset Package", group |-> "", exclusive |-> TRUE,
       bypassesQueue |-> TRUE] }

\* the operations of a queue, running or pending
InQueue(q) ==
    {Active(q)[k] : k \in 1..Len(Active(q))} \cup {q.pending[k] : k \in 1..Len(q.pending)}

\* Start-up of one workspace folder, submissions of operations that are not
\* in its queue and completions in any of the terminal states.
InitQueue ==
    /\ InitFrom({NoUri})
    /\ NoHostTasks
    /\ workspaceFolders = << Inner >>

NextQueue ==
    \/ AddWorkspaceFolders
    \/ \E k \in 1..Len(tasks) : ObserverReturns(k)
    \/ \E k \in 1..Len(tasks) : FileSystemReturns(k)
    \/ \E k \in 1..Len(tasks) : AwaitContinues(k)
    \/ \E i \in 1..Len(folders) : \E op \in QueueOperations :
          /\ op \notin InQueue(taskQueue[folders[i]])
          /\ QueueOperation(i, op)
    \/ \E i \in 1..Len(folders) : \E state \in TerminalStates :
          \E n \in 1..Len(Active(taskQueue[folders[i]])) :
              OperationCompletes(i, n, state)

SpecQueue == InitQueue /\ [][NextQueue]_vars

\* ------------------------------------------------------------- properties
Folder(r) == heap[r].folder
IsFolder(r) == r # NullRef /\ r # UndefinedRef
Focus(r) == [ev |-> "focus", fc |-> r]
Unfocus(r) == [ev |-> "unfocus", fc |-> r]
IsPrefix(p, q) == Len(p) <= Len(q) /\ SubSeq(q, 1, Len(p)) = p
NumberOf(origin, q) == Cardinality({k \in 1..Len(q) : q[k].origin = origin})

\* C1: WorkspaceContext.folders never contains two folders with the same
\* root path, whatever the additions and removals and their interleaving.
C1_NoDuplicateRoots ==
    \A i, j \in 1..Len(folders) : i # j => Folder(folders[i]) # Folder(folders[j])

\* C2: when focusFolder moves the focus from a folder A to a different value
\* B, every observer has received unfocus(A) before any observer receives
\* focus(B): when focus(B) is delivered, unfocus(A) is the last focus or
\* unfocus event each observer not yet sent focus(B) has received.  And no
\* observer receives focus for the same folder twice in a row without an
\* unfocus of that folder in between.
C2_UnfocusBeforeFocus ==
    [][\A n \in 1..Len(calls') :
          LET c == calls'[n]
          IN c.ev = "focus" =>
               /\ IsFolder(c.fc) => view[c.obs] # Focus(c.fc)
               /\ (IsFolder(c.prev) /\ c.prev # c.fc) =>
                     /\ view[c.obs] = Unfocus(c.prev)
                     /\ \A o \in 1..Len(observers) :
                           view[o] \in {Unfocus(c.prev), Focus(c.fc)}]_vars

\* C3: also when a second focus request starts while a focusFolder call is
\* suspended in an observer, no focus dispatch begins while an unfocus
\* dispatch has not yet completed for all observers, and no observer is sent
\* unfocus for a folder twice for one focus of it.
C3_FocusRequestsSerialised ==
    /\ [](\A n \in 1..Len(calls) :
             (calls[n].ev = "focus" /\ calls[n].obs = observers[1]) =>
                 \A k \in 1..Len(tasks) :
                     ~(tasks[k].pc = "fire_wait" /\ tasks[k].ev = "unfocus"))
    /\ [][\A n \in 1..Len(calls') :
             (calls'[n].ev = "unfocus" /\ IsFolder(calls'[n].fc)) =>
                 view[calls'[n].obs] # Unfocus(calls'[n].fc)]_vars

\* C4: focusFolder(F) called while F is the current folder delivers no
\* event, neither a second focus(F) nor an unfocus, and leaves currentFolder
\* as it is.
C4_FocusIdempotent ==
    [][(ffCall'.made /\ ffCall'.target = ffCall'.cur) =>
          /\ calls' = << >>
          /\ view' = view
          /\ currentFolder' = currentFolder]_vars

\* a block in which focusFolder(F) was called for the current folder F
C4_Witness ==
    /\ ffCall.made
    /\ IsFolder(ffCall.target)
    /\ ffCall.target = ffCall.cur
    /\ \A o \in 1..Len(observers) : view[o] = Focus(ffCall.target)

\* C5: removing the workspace folder whose only package folder is the focused
\* one delivers unfocus for that folder exactly once to each observer (no
\* observer is sent it a second time in a row), and the focus is null when
\* the removal's focus change has finished.
C5_RemoveSoleFocused ==
    [][/\ \A n \in 1..Len(calls') :
             LET c == calls'[n]
             IN (/\ c.ev = "unfocus"
                 /\ IsFolder(c.fc)
                 /\ removal'[c.fc].focused
                 /\ removal'[c.fc].sole) => view[c.obs] # Unfocus(c.fc)
       /\ (/\ NumberOf("removeFocused", tasks') < NumberOf("removeFocused", tasks)
           /\ \A r \in 1..Len(removal) : removal[r].focused => removal[r].sole)
             => currentFolder' = NullRef]_vars

\* C6: when the folder removed is the focused one, a remove call for it is
\* made only when currentFolder is null and every observer has been sent
\* unfocus for it.
C6_UnfocusBeforeRemove ==
    \A n \in 1..Len(calls) :
        (calls[n].ev = "remove" /\ removal[calls[n].fc].focused) =>
            /\ calls[n].cur = NullRef
            /\ \A o \in 1..Len(observers) :
                  view[o] \in {Unfocus(calls[n].fc), Focus(NullRef)}

\* C7: the remove event of a folder goes to the observers in the reverse of
\* their registration order, one observer per block: the next observer is
\* called only after the previous one has been awaited.
C7_RemoveInReverseOrder ==
    /\ [](\A r \in 1..Len(removal) :
             IsPrefix(removal[r].notified, Reverse(observers)))
    /\ [][\A r \in 1..Len(removal) :
             Len(removal'[r].notified) <= Len(removal[r].notified) + 1]_vars

\* a removed folder of which every observer has been notified
C7_Witness ==
    \E r \in 1..Len(removal) :
        /\ removal[r].notified = Reverse(observers)
        /\ r \in disposed

\* C8 as stated: a change of the active editor to none or to a document that
\* is not a file unfocuses the focused folder and makes the focus null.
C8_NonFileFocusesNull ==
    [][(/\ handler' = "onDidChangeActiveTextEditor"
        /\ activeTextEditor'.scheme # "file"
        /\ IsFolder(currentFolder)) =>
          /\ currentFolder' = NullRef
          /\ \E n \in 1..Len(calls') : /\ calls'[n].ev = "unfocus"
                                       /\ calls'[n].fc = currentFolder]_vars

\* C8 amended: a change of the active editor to none or to a document that
\* is not a file only sets currentDocument; no event is delivered, the focus
\* stays as it is and nothing is left running.
C8_NonFileKeepsFocus ==
    [][(/\ handler' = "onDidChangeActiveTextEditor"
        /\ activeTextEditor'.scheme # "file") =>
          /\ currentDocument' = activeTextEditor'
          /\ calls' = << >>
          /\ view' = view
          /\ currentFolder' = currentFolder
          /\ tasks' = tasks]_vars

\* the editor went away while a folder had the focus
C8_Witness ==
    /\ handler = "onDidChangeActiveTextEditor"
    /\ activeTextEditor = NoUri
    /\ currentDocument = NoUri
    /\ IsFolder(currentFolder)

\* C9: opening a view that is not file based sends no unfocus and leaves
\* currentFolder and the folders unchanged.
C9_NonFileViewNoUnfocus ==
    [][(/\ handler' = "onDidChangeActiveTextEditor"
        /\ activeTextEditor' # NoUri
        /\ activeTextEditor'.scheme # "file") =>
          /\ \A n \in 1..Len(calls') : calls'[n].ev # "unfocus"
          /\ currentFolder' = currentFolder
          /\ folders' = folders
          /\ lastFocusUri' = lastFocusUri
          /\ tasks' = tasks]_vars

\* a view that is not file based was opened while a folder had the focus
C9_Witness ==
    /\ handler = "onDidChangeActiveTextEditor"
    /\ activeTextEditor = Untitled
    /\ IsFolder(currentFolder)
    /\ \A o \in 1..Len(observers) : view[o] = Focus(currentFolder)

\* C10: the folder getPackageFolder finds among the registered folders is a
\* registered one and the most specific of those that contain the path.
C10_LookupMostSpecific ==
    (lookup.made /\ lookup.result # UndefinedRef) =>
        /\ \E i \in 1..Len(folders) : folders[i] = lookup.result
        /\ \A i \in 1..Len(folders) :
              isPathInsidePath(lookup.url, Folder(folders[i])) =>
                  Len(Folder(folders[i])) <= Len(Folder(lookup.result))

\* The directories between the directory of url and workspace, both
\* inclusive, that hold a manifest, by the length of their paths.
ManifestDepths(url, workspace) ==
    {n \in Len(workspace)..(Len(url) - 1) :
        isValidWorkspaceFolder(SubSeq(url, 1, n))}

\* C11: the upward search of getPackageFolder returns the outermost
\* directory between the directory of the path and the workspace folder,
\* both inclusive, that holds a manifest, and undefined when there is none.
C11_SearchReturnsOutermost ==
    upward.made =>
        LET depths == ManifestDepths(upward.url, upward.workspace)
        IN IF depths = {} THEN upward.result = NoPath
           ELSE /\ Len(upward.result) \in depths
                /\ \A n \in depths : Len(upward.result) <= n
                /\ upward.result = SubSeq(upward.url, 1, Len(upward.result))

\* a search from a file of the inner folder, whose manifest is passed over
\* for the one of the outer folder
C11_Witness ==
    /\ upward.made
    /\ upward.url = FileB.path
    /\ upward.workspace = WsRoot
    /\ isValidWorkspaceFolder(Inner)
    /\ upward.result = Outer

\* C12: the request replayed when initialisation completes is the one of
\* the most recent active file: lastFocusUri, when initialisationComplete
\* finds it set, is the uri of the editor that is active.
C12_ReplayIsNewest ==
    [][(/\ ~initialisationFinished
        /\ initialisationFinished'
        /\ lastFocusUri # NoUri) => lastFocusUri = activeTextEditor]_vars

\* the upward search of getPackageFolder has just found a package folder that
\* is not registered, for the file u, before initialisation has finished
Deferred(u) ==
    /\ upward.made
    /\ upward.url = u.path
    /\ upward.result # NoPath
    /\ ~initialisationFinished

\* the focused folder is registered and the file u is inside it
FocusedOnOwner(u) ==
    /\ IsFolder(currentFolder)
    /\ \E i \in 1..Len(folders) : folders[i] = currentFolder
    /\ isPathInsidePath(u.path, Folder(currentFolder))

\* the task is in the part of focusPackageUri that unfocuses the current
\* folder, registers the package folder and focuses it
Registering(t) ==
    \E i \in 1..Len(t.stack) : t.stack[i] \in {"fpu_add", "fpu_focus"}

\* C13: when the active file resolves to a package folder that is not
\* registered while initialisation is in progress, focusPackageUri adds no
\* folder, calls no observer and leaves the focus alone, and keeps the uri as
\* the deferred request, and no call of focusPackageUri registers a folder
\* before initialisation has finished; once initialisation has finished the request is
\* resolved: a registered folder that contains the file gets the focus.
C13_DeferredUntilInitialised ==
    /\ [](~initialisationFinished => \A k \in 1..Len(tasks) : ~Registering(tasks[k]))
    /\ [][(/\ upward'.made
           /\ upward'.result # NoPath
           /\ ~initialisationFinished)
          => /\ folders' = folders
             /\ heap' = heap
             /\ calls' = << >>
             /\ currentFolder' = currentFolder
             /\ lastFocusUri'.path = upward'.url]_vars
    /\ \A u \in SearchUris :
           Deferred(u) ~> (/\ initialisationFinished
                           /\ lastFocusUri = NoUri
                           /\ FocusedOnOwner(u))

\* the request for a file of /ws/Packages, deferred at start-up, has been
\* resolved: /ws/Packages is registered and focused
C13_Witness ==
    /\ initialisationFinished
    /\ tasks = << >>
    /\ activeTextEditor = FileDep
    /\ IsFolder(currentFolder)
    /\ Folder(currentFolder) = <<"ws", "Packages">>
    /\ \A o \in 1..NumObservers : view[o] = Focus(currentFolder)
\* the task is in the focusFolder call that ends focusPackageUri after it
\* has registered a folder: focusFolder was called for a folder, and neither
\* for a folder that getPackageFolder found nor by addWorkspaceFolders
FocusingNew(t) ==
    /\ t.stack # << >>
    /\ Head(t.stack) = "ff_set"
    /\ IsFolder(t.target)
    /\ Len(t.stack) > 1 => t.stack[2] \notin {"fpu_clear", "initialisationComplete"}

\* C14: when focusPackageUri registers a package folder after initialisation
\* the events are unfocus(current folder), add(new folder), focus(new folder):
\* no folder is focused while the add event is dispatched, and focusFolder,
\* called for the new folder, finds no folder to unfocus a second time.
C14_UnfocusAddFocus ==
    \A k \in 1..Len(tasks) :
        LET t == tasks[k]
        IN t.pc = "fire_wait"
           => /\ (t.ev = "add" /\ Registering(t)) => currentFolder = UndefinedRef
              /\ FocusingNew(t) => t.ev # "unfocus"
\* addWorkspaceFolders is dispatching the focus event of its own focusFolder
\* call to the first observer
StartupFocusing(t) ==
    /\ t.origin = "init"
    /\ t.stack = << "initialisationComplete" >>
    /\ t.pc = "fire_wait"
    /\ t.ev = "focus"
    /\ t.i = 1

\* C15: when addWorkspaceFolders has added every workspace folder and finds
\* no folder selected, it focuses the first folder if exactly one is
\* registered and null otherwise, before initialisation is marked finished;
\* at the step that marks initialisation finished the focus is a folder or
\* null.
C15_FocusDeterminedAtStartup ==
    [][/\ (~initialisationFinished /\ initialisationFinished')
          => currentFolder' # UndefinedRef
       /\ \A k \in 1..Len(tasks') :
             (/\ ffCall'.made
              /\ ffCall'.cur = UndefinedRef
              /\ StartupFocusing(tasks'[k]))
             => /\ ffCall'.target = IF Len(folders') = 1 THEN folders'[1]
                                    ELSE NullRef
                /\ currentFolder' = ffCall'.target
                /\ ~initialisationFinished']_vars

\* start-up focuses the only folder registered
C15_Witness ==
    /\ ~initialisationFinished
    /\ Len(folders) = 1
    /\ currentFolder = folders[1]
    /\ ffCall.made
    /\ ffCall.cur = UndefinedRef
    /\ \E k \in 1..Len(tasks) : StartupFocusing(tasks[k])
\* the tasks of tasks.json that belong to the workspace folder of f and whose
\* working directory, the workspace folder when unset or "${workspaceFolder}",
\* is the folder of f
DeclaredFor(f, task) ==
    /\ task.source = "Workspace"
    /\ task.scope = f.workspaceFolder
    /\ \/ task.cwd = f.folder
       \/ task.cwd \in {NoPath, CwdWorkspaceFolder} /\ f.workspaceFolder = f.folder

\* rule 1 of the claim as amended, rule 2 of the claim as amended, rule 3
Rule1(f, task) == DeclaredFor(f, task) /\ task.group = "build" /\ task.isDefault
Rule2(f, task) ==
    /\ DeclaredFor(f, task)
    /\ task.name = "swift: " \o createBuildAllTask(f).name
Rule3(f, task) ==
    /\ task.source = "swift"
    /\ task.type = "swift"
    /\ task.name = createBuildAllTask(f).name
    /\ task.cwd = f.folder

\* task is the first task of hostTasks that satisfies Rule
FirstOf(Rule(_, _), f, task) ==
    \E i \in 1..Len(hostTasks) :
        /\ hostTasks[i] = task
        /\ Rule(f, task)
        /\ \A j \in 1..(i - 1) : ~Rule(f, hostTasks[j])

Some(Rule(_, _), f) == \E i \in 1..Len(hostTasks) : Rule(f, hostTasks[i])

\* the precedence of the three rules decides the task returned
Precedence(R1(_, _), R2(_, _), R3(_, _)) ==
    buildAll.made /\ buildAll.error = ""
    => LET f == heap[buildAll.folder]
       IN \/ FirstOf(R1, f, buildAll.task)
          \/ ~Some(R1, f) /\ FirstOf(R2, f, buildAll.task)
          \/ ~Some(R1, f) /\ ~Some(R2, f) /\ FirstOf(R3, f, buildAll.task)

\* C16 as amended: getBuildAllTask returns the first task of the first rule
\* that a task satisfies, the rules being (1) a task of tasks.json declared
\* for the folder that is the default build task, (2) a task of tasks.json
\* declared for the folder and named as the generated task is shown,
\* (3) a generated swift task with the name and the working directory of the
\* folder; declared for the folder means: in the scope of its workspace
\* folder, with its folder as the working directory.
C16_PrecedenceDeclaredForFolder == Precedence(Rule1, Rule2, Rule3)
\* rule 2 as the claim words it: a task of tasks.json of the workspace
\* folder with the name, whatever its working directory
ClaimedRule2(f, task) ==
    /\ task.source = "Workspace"
    /\ task.scope = f.workspaceFolder
    /\ task.name = "swift: " \o createBuildAllTask(f).name

\* C16: getBuildAllTask returns the first task of the first rule that a task
\* satisfies, the rules being (1) a task of tasks.json whose working
\* directory is the folder and that is the default build task, (2) a task of
\* tasks.json named as the generated task is shown, (3) a generated swift
\* task with the name and the working directory of the folder.
C16_Precedence == Precedence(Rule1, ClaimedRule2, Rule3)

\* a task of tasks.json named as the generated task is returned although a
\* generated task exists too
C16_Witness ==
    /\ buildAll.made
    /\ buildAll.error = ""
    /\ Rule2(heap[buildAll.folder], buildAll.task)
    /\ ~Some(Rule1, heap[buildAll.folder])
    /\ Some(Rule3, heap[buildAll.folder])
\* getBuildAllTask throws exactly when no task satisfies one of the rules, it
\* then returns no task, and the call changes nothing of the program's state
FailsExactlyWhen(R1(_, _), R2(_, _), R3(_, _)) ==
    buildAll'.made
    => LET f == heap[buildAll'.folder]
       IN /\ buildAll'.error # ""
             <=> ~Some(R1, f) /\ ~Some(R2, f) /\ ~Some(R3, f)
          /\ buildAll'.error # ""
             => /\ buildAll'.error = "Build All Task does not exist"
                /\ buildAll'.task = NoTask
          /\ UNCHANGED << folders, currentFolder, currentDocument,
                          lastFocusUri, initialisationFinished, observers,
                          heap, disposed, tasks, hostTasks, taskQueue >>

\* C17 as amended: getBuildAllTask fails with "Build All Task does not exist"
\* exactly when no task satisfies one of the three rules, rules 1 and 2
\* counting only the tasks of tasks.json declared for the folder; it then
\* returns no task and changes no state.
C17_FailsWhenNoRuleForFolder ==
    [][FailsExactlyWhen(Rule1, Rule2, Rule3)]_vars

\* C17: getBuildAllTask fails with the task-not-found error exactly when no
\* task satisfies one of the three rules as the claim words them; it then
\* returns no task and changes no state.
C17_FailsWhenNoRule ==
    [][FailsExactlyWhen(Rule1, ClaimedRule2, Rule3)]_vars

\* getBuildAllTask has failed for a folder although the host has tasks
C17_Witness ==
    /\ buildAll.made
    /\ buildAll.error = "Build All Task does not exist"
    /\ buildAll.task = NoTask
    /\ Len(hostTasks) = MaxHostTasks
\* an operation that is not of the Build group is active on the queue of fc
Blocked(fc) ==
    /\ taskQueue[fc].activeOperation # NoOperation
    /\ taskQueue[fc].activeOperation.group # "build"

\* the tasks provideTasks returned that run in the folder of fc
TasksIn(fc) == SelectSeq(provided.tasks, LAMBDA task : task.cwd = Folder(fc))

\* task is the placeholder of the folder fc: it is in the scope of its
\* workspace folder and names its active operation
IsPlaceholderOf(task, fc) ==
    /\ task.name = "Build tasks disabled"
    /\ task.scope = heap[fc].workspaceFolder
    /\ task.detail = "While " \o taskQueue[fc].activeOperation.name \o " is running."
    /\ task.cwd = NoPath

RECURSIVE ProductTaskNames(_, _)
\* the names of the debug and release builds of the products, with the suffix
\* of the folder
ProductTaskNames(products, suffix) ==
    IF products = << >> THEN << >>
    ELSE << "Build Debug " \o Head(products) \o suffix,
            "Build Release " \o Head(products) \o suffix >>
         \o ProductTaskNames(Tail(products), suffix)

\* the names of the tasks provideTasks is to offer for the folder fc
BuildTaskNames(fc) ==
    LET rel == Join(SubSeq(Folder(fc), Len(heap[fc].workspaceFolder) + 1,
                           Len(Folder(fc))), "/")
        suffix == IF rel = "" THEN "" ELSE " (" \o rel \o ")"
    IN << "Build All" \o suffix >>
       \o ProductTaskNames(executableProducts(Folder(fc)), suffix)

\* C18: provideTasks offers no build task for a folder whose queue has an
\* active operation that is not of the Build group, but one "Build tasks
\* disabled" task that names the operation; for a folder with no active
\* operation or an active Build operation it offers Build All and the debug
\* and the release build of each executable product; for a folder without a
\* package it offers nothing; and it offers nothing else.
C18_BuildTasksDisabled ==
    provided.made
    => /\ \A i \in 1..Len(folders) :
             LET fc == folders[i]
                 names == [k \in 1..Len(TasksIn(fc)) |-> TasksIn(fc)[k].name]
             IN IF ~foundPackage(Folder(fc)) THEN names = << >>
                ELSE IF Blocked(fc)
                THEN /\ names = << >>
                     /\ Cardinality({k \in 1..Len(provided.tasks) :
                                        IsPlaceholderOf(provided.tasks[k], fc)})
                        = Cardinality({j \in 1..Len(folders) :
                                          /\ foundPackage(Folder(folders[j]))
                                          /\ Blocked(folders[j])
                                          /\ heap[folders[j]].workspaceFolder
                                             = heap[fc].workspaceFolder
                                          /\ taskQueue[folders[j]].activeOperation.name
                                             = taskQueue[fc].activeOperation.name})
                ELSE /\ names = BuildTaskNames(fc)
                     /\ \A k \in 1..Len(TasksIn(fc)) :
                            /\ TasksIn(fc)[k].group = "build"
                            /\ TasksIn(fc)[k].scope = heap[fc].workspaceFolder
       /\ \A k \in 1..Len(provided.tasks) :
             \E i \in 1..Len(folders) :
                 /\ foundPackage(Folder(folders[i]))
                 /\ IF Blocked(folders[i])
                    THEN IsPlaceholderOf(provided.tasks[k], folders[i])
                    ELSE provided.tasks[k].cwd = Folder(folders[i])

\* provideTasks has offered the placeholder for one folder and the build
\* tasks of two products for another
C18_Witness ==
    /\ provided.made
    /\ \E i, j \in 1..Len(folders) :
           /\ foundPackage(Folder(folders[i]))
           /\ Blocked(folders[i])
           /\ ~Blocked(folders[j])
           /\ Len(executableProducts(Folder(folders[j]))) = 2
    /\ Len(provided.tasks) = 6
\* C19: a call of provideTasks changes no task queue, neither its active
\* operation nor its pending list, nor the folders of the workspace nor the
\* focus.
C19_ProvideTasksReadOnly ==
    [][provided'.made
       => /\ taskQueue' = taskQueue
          /\ folders' = folders
          /\ heap' = heap
          /\ currentFolder' = currentFolder
          /\ currentDocument' = currentDocument
          /\ disposed' = disposed]_vars

\* provideTasks has offered the placeholder for the focused folder, whose
\* queue has an active and a pending operation
C19_Witness ==
    /\ provided.made
    /\ IsFolder(currentFolder)
    /\ Blocked(currentFolder)
    /\ taskQueue[currentFolder].pending # << >>
    /\ \E k \in 1..Len(provided.tasks) :
           IsPlaceholderOf(provided.tasks[k], currentFolder)
\* the workspace folders the host has just removed
Removed == {workspaceFolders[i] : i \in 1..Len(workspaceFolders)}
               \ {workspaceFolders'[i] : i \in 1..Len(workspaceFolders')}

\* C20: removeWorkspaceFolder(W) removes from folders every folder whose
\* workspace folder is W and no other folder, and the folders that remain
\* keep their order.
C20_RemovesFoldersOfWorkspace ==
    [][(handler' = "onDidChangeWorkspaceFolders" /\ Removed # {})
       => /\ \A i \in 1..Len(folders) :
                 (\E j \in 1..Len(folders') : folders'[j] = folders[i])
                 <=> heap[folders[i]].workspaceFolder \notin Removed
          /\ \A j \in 1..Len(folders') :
                 \E i \in 1..Len(folders) : folders[i] = folders'[j]
          /\ \A j1, j2 \in 1..Len(folders') : \A i1, i2 \in 1..Len(folders) :
                 (/\ j1 < j2
                  /\ folders[i1] = folders'[j1]
                  /\ folders[i2] = folders'[j2]) => i1 < i2]_vars

\* the removal of /ws has removed /ws/outer and /ws/Packages and has kept
\* /ws/outer/inner
C20_Witness ==
    /\ handler = "onDidChangeWorkspaceFolders"
    /\ workspaceFolders = << Inner >>
    /\ Len(heap) = 3
    /\ \E r \in 1..Len(heap) : heap[r] = [folder |-> << "ws", "Packages" >>,
                                          workspaceFolder |-> WsRoot]
    /\ Len(folders) = 1
    /\ heap[folders[1]] = [folder |-> Inner, workspaceFolder |-> Inner]

\* C21: with two folders registered, the focus requests of the active editor
\* give every observer the events of the scenario and no others: focus(X)
\* is the observer's first focus event or follows unfocus(Y) of a different
\* Y directly, unfocus(Y) follows focus(Y) directly (unfocus(null) from the
\* null state included), so a request for the folder in focus sends nothing.
C21_FocusSequence ==
    [][\A n \in 1..Len(calls') :
          LET c == calls'[n]
          IN (c.origin = "editor" /\ Len(folders) >= 2) =>
                /\ c.ev = "focus" =>
                      \/ view[c.obs] = NoView
                      \/ /\ view[c.obs].ev = "unfocus"
                         /\ view[c.obs].fc # c.fc
                /\ c.ev = "unfocus" => view[c.obs] = Focus(c.fc)]_vars

\* the operations running on the queue of the folder fc
Running(fc) == {Active(taskQueue[fc])[k] : k \in 1..Len(Active(taskQueue[fc]))}

\* C22: on the queue of a folder an exclusive operation is never running at
\* the same time as another operation, whatever the flags of the operations
\* submitted and the order of the submissions and completions.
C22_ExclusiveRunsAlone ==
    \A fc \in 1..Len(taskQueue) :
        \A x \in Running(fc) : x.exclusive => Running(fc) = {x}

\* the operations pending on the queue of the folder fc
Pending(fc) == {taskQueue[fc].pending[k] : k \in 1..Len(taskQueue[fc].pending)}

\* C23: a resolve operation (exclusive) that is pending while a build
\* operation is running stays pending for as long as that build runs, and
\* when the two are alone on the queue it starts in the step in which the
\* build reaches its terminal state, whichever of the three that is.
C23_ResolveWaitsForBuild ==
    [][\A fc \in 1..Len(taskQueue) :
          \A x \in Pending(fc) : \A y \in Running(fc) :
              (/\ x.exclusive
               /\ ~x.bypassesQueue
               /\ y.group = "build"
               /\ ~y.bypassesQueue) =>
                  /\ y \in Running(fc)' => x \in Pending(fc)'
                  /\ (/\ y \notin Running(fc)'
                      /\ Running(fc) = {y}
                      /\ Pending(fc) = {x}) =>
                         /\ finished'.state \in TerminalStates
                         /\ Running(fc)' = {x}]_vars

\* the operations submitted to the queue of the folder fc in this step
Submitted(fc) == InQueue(taskQueue[fc])' \ InQueue(taskQueue[fc])

\* C24: an operation with bypassesQueue submitted to a queue whose active
\* operation is not exclusive is running at the end of the step that submits
\* it, next to the operations that were running, none of which has ended,
\* and the pending list is as it was.
C24_BypassStartsAtOnce ==
    [][\A fc \in 1..Len(taskQueue) :
          \A x \in Submitted(fc) :
              (/\ x.bypassesQueue
               /\ taskQueue[fc].activeOperation # NoOperation
               /\ ~taskQueue[fc].activeOperation.exclusive) =>
                  /\ Active(taskQueue[fc])' = Append(Active(taskQueue[fc]), x)
                  /\ taskQueue'[fc].pending = taskQueue[fc].pending
                  /\ ~finished'.made]_vars

\* a bypassing operation runs next to the build it was submitted after,
\* while an operation submitted before it is still pending
C24_Witness ==
    \E fc \in 1..Len(taskQueue) :
        /\ taskQueue[fc].activeOperation.name = "Build All"
        /\ Len(taskQueue[fc].concurrent) = 1
        /\ taskQueue[fc].concurrent[1].bypassesQueue
        /\ ~taskQueue[fc].concurrent[1].exclusive
        /\ taskQueue[fc].pending # << >>
        /\ ~finished.made

\* an operation that is neither exclusive nor bypasses the queue
Plain(op) == ~op.exclusive /\ ~op.bypassesQueue

\* the operations of the queue of the folder fc that start in this step
Started(fc) == Running(fc)' \ Running(fc)

\* C25: the operations of a queue that are neither exclusive nor bypass the
\* queue start in the order of their submission: the pending list keeps that
\* order, and when such an operation starts no such operation submitted
\* before it is still pending; a queue of such operations only starts the
\* head of its pending list, or the operation just submitted if idle.
C25_StartInSubmissionOrder ==
    [][\A fc \in 1..Len(taskQueue) :
          LET pending == taskQueue[fc].pending
          IN \A x \in Started(fc) :
                Plain(x) =>
                   /\ x \notin Pending(fc) =>
                         /\ x \in Submitted(fc)
                         /\ \A k \in 1..Len(pending) : ~Plain(pending[k])
                         /\ taskQueue'[fc].pending = pending
                   /\ \A j \in 1..Len(pending) :
                         pending[j] = x =>
                            /\ \A k \in 1..(j - 1) : ~Plain(pending[k])
                            /\ taskQueue'[fc].pending = Without(pending, j)
                   /\ (\A y \in InQueue(taskQueue[fc]) : Plain(y)) =>
                         (x \in Pending(fc) => x = Head(pending))]_vars

\* the first of two pending operations has started at the completion of a
\* third, the second is still pending, and none of the three has a flag
C25_Witness ==
    \E fc \in 1..Len(taskQueue) :
        /\ finished.made
        /\ taskQueue[fc].activeOperation.name = "Build Debug app"
        /\ taskQueue[fc].concurrent = << >>
        /\ Len(taskQueue[fc].pending) = 1
        /\ taskQueue[fc].pending[1].name = "Build Release app"

\* the events fireEvent dispatches
FireEvents == {"add", "focus", "unfocus"}

\* the observers registered, and those a sequence holds
Registered == {observers[k] : k \in 1..Len(observers)}
Range(q) == {q[k] : k \in 1..Len(q)}

\* the calls of the block that belong to the dispatch of the task t
CallsOf(t, cs) ==
    {n \in 1..Len(cs) : /\ cs[n].ev = t.ev
                        /\ cs[n].fc = t.fc
                        /\ cs[n].origin = t.origin
                        /\ cs[n].obs \in Range(t.seen)}

FailsInUnfocus(k) ==
    /\ tasks[k].pc = "fire_wait"
    /\ tasks[k].ev = "unfocus"
    /\ tasks[k].stack # << >>
    /\ Head(tasks[k].stack) = "ff_set"
    /\ tasks[k].stack = rejected'.stack
    /\ tasks[k].i = rejected'.obs
    /\ tasks[k].fc = rejected'.fc

\* C27: when an observer raises during the unfocus dispatch of focusFolder,
\* no other observer is called in that block or later for that dispatch, the
\* error leaves fireEvent and focusFolder and the call chain ends,
\* currentFolder keeps its value and no focus event is sent for the folder
\* requested.
C27_ObserverFailureAbortsFocus ==
    [][(/\ rejected'.made
        /\ rejected'.ev = "unfocus"
        /\ \E k \in 1..Len(tasks) : FailsInUnfocus(k)) =>
          /\ \E k \in 1..Len(tasks) : /\ FailsInUnfocus(k)
                                      /\ tasks' = Without(tasks, k)
          /\ Len(rejected'.frames) >= 2
          /\ rejected'.frames[1] = "fireEvent"
          /\ rejected'.frames[2] = "ff_set"
          /\ calls' = << >>
          /\ view' = view
          /\ currentFolder' = currentFolder]_vars

\* the first observer has raised for the unfocus of the folder in focus: the
\* folder is still the current one and the second observer has not been sent
\* the unfocus
C27_Witness ==
    /\ rejected.made
    /\ rejected.ev = "unfocus"
    /\ rejected.obs = 1
    /\ rejected.frames[2] = "ff_set"
    /\ IsFolder(rejected.fc)
    /\ currentFolder = rejected.fc
    /\ view[2] = Focus(rejected.fc)
    /\ Len(observers) = NumObservers

\* C28: a call of focusFolder sends unfocus, for the current value, exactly
\* when currentFolder is a folder or null and is not the value requested,
\* and then leaves currentFolder as it is until the unfocus has been
\* dispatched; when currentFolder is undefined it sends no unfocus, sets
\* currentFolder and sends focus for the value requested, a folder or null;
\* when currentFolder is the value requested it sends nothing.
C28_UnfocusWhenDetermined ==
    [][ffCall'.made =>
          LET target == ffCall'.target
              cur == ffCall'.cur
              mine == SelectSeq(calls', LAMBDA c : c.ev \in {"focus", "unfocus"})
          IN /\ cur = currentFolder
             /\ (cur # UndefinedRef /\ cur # target) =>
                   /\ Len(mine) = 1
                   /\ mine[1].ev = "unfocus"
                   /\ mine[1].fc = cur
                   /\ mine[1].obs = observers[1]
                   /\ currentFolder' = cur
             /\ cur = UndefinedRef =>
                   /\ Len(mine) = 1
                   /\ mine[1].ev = "focus"
                   /\ mine[1].fc = target
                   /\ mine[1].obs = observers[1]
                   /\ currentFolder' = target
             /\ cur = target => mine = << >> /\ currentFolder' = cur]_vars

\* focusFolder(null) was called when nothing had the focus yet: the first
\* observer has been sent focus(null) and nothing else
C28_Witness ==
    /\ ffCall.made
    /\ ffCall.cur = UndefinedRef
    /\ ffCall.target = NullRef
    /\ currentFolder = NullRef
    /\ Len(calls) = 1
    /\ calls[1].ev = "focus"
    /\ calls[1].fc = NullRef
    /\ \A o \in 1..NumObservers : o # calls[1].obs => view[o] = NoView

\* C29: no call of addPackageFolder for a root that is registered creates a
\* folder or sends an add event, also when the call overlaps the call that
\* registered the root: a FolderContext is created and appended only for a
\* root that no registered folder has, and an add event is sent only for a
\* folder whose root no other registered folder has.
C29_DuplicateReturnsExisting ==
    [][/\ Len(heap') > Len(heap) =>
             /\ Len(heap') = Len(heap) + 1
             /\ \A i \in 1..Len(folders) :
                   Folder(folders[i]) # heap'[Len(heap')].folder
       /\ \A n \in 1..Len(calls') :
             calls'[n].ev = "add" =>
                \A i \in 1..Len(folders') :
                    folders'[i] # calls'[n].fc =>
                        heap'[folders'[i]].folder # heap'[calls'[n].fc].folder]_vars

\* C30: a folder that addPackageFolder creates is appended at the end of
\* folders, which keeps the order of the others; its add event is sent to an
\* observer once, by the dispatch that starts in the block that appends the
\* folder; and the folder is a member of folders whenever an observer is
\* sent its add event.
C30_AddAfterAppend ==
    [][/\ Len(heap') > Len(heap) => folders' = Append(folders, Len(heap'))
       /\ \A n \in 1..Len(calls') :
             calls'[n].ev = "add" =>
                /\ \/ /\ Len(heap') > Len(heap)
                      /\ calls'[n].fc = Len(heap')
                      /\ calls'[n].obs = observers[1]
                   \/ \E k \in 1..Len(tasks) :
                         /\ tasks[k].pc = "fire_wait"
                         /\ tasks[k].ev = "add"
                         /\ tasks[k].fc = calls'[n].fc
                         /\ calls'[n].obs \notin Range(tasks[k].seen)
                /\ \E i \in 1..Len(folders') : folders'[i] = calls'[n].fc]_vars

\* C31: a folder that is no longer in folders has had its remove event sent
\* to every observer, and a folder that is disposed has had it sent to every
\* observer.
C31_RemoveBeforeDelete ==
    \A r \in 1..Len(removal) :
        /\ r \notin Range(folders) => removal[r].notified = Reverse(observers)
        /\ r \in disposed => removal[r].notified = Reverse(observers)

\* the path p lies below the directory ws through a directory whose name
\* begins with a dot or is "Packages"
ThroughSkipped(p, ws) ==
    \E n \in (Len(ws) + 1)..Len(p) : StartsWithDot(p[n]) \/ p[n] = "Packages"

\* the directories from ws down to the parent of p
Above(p, ws) == {SubSeq(p, 1, n) : n \in Len(ws)..(Len(p) - 1)}

\* the directories the walk of the task t is still to test
ToSearch(t) ==
    Range(t.todo) \cup (IF t.pc = "sfp_valid" THEN {t.dir} ELSE {})

\* C32: of every walk of searchForPackages over a workspace folder, the
\* directories it registers validate, lie in the workspace folder below
\* directories that do not validate and whose names are neither hidden nor
\* "Packages", and are the workspace folder itself when the search of
\* sub-folders is off; the same holds of the directories it is still to
\* test, none of which lies in a directory it has registered; and no two
\* directories it registers lie one inside the other.
C32_WalkRegisters ==
    \A k \in 1..Len(tasks) :
        LET t == tasks[k]
            Reached(d) ==
                /\ isPathInsidePath(d, t.ws)
                /\ ~ThroughSkipped(d, t.ws)
                /\ \A a \in Above(d, t.ws) : ~isValidWorkspaceFolder(a)
                /\ d # t.ws => searchSubfoldersForPackages
        IN /\ \A i \in 1..Len(t.found) :
                 /\ isValidWorkspaceFolder(t.found[i])
                 /\ Reached(t.found[i])
           /\ \A i, j \in 1..Len(t.found) :
                 i # j => ~isPathInsidePath(t.found[i], t.found[j])
           /\ \A d \in ToSearch(t) :
                 /\ Reached(d)
                 /\ \A i \in 1..Len(t.found) : ~isPathInsidePath(d, t.found[i])

\* the walk of /ws has passed .build and Packages, which validate, has
\* registered /ws/outer and ends without a look into /ws/outer/inner, which
\* validates too
C32_Witness ==
    \E k \in 1..Len(tasks) :
        /\ tasks[k].pc = "fire_wait"
        /\ tasks[k].ev = "add"
        /\ tasks[k].ws = WsRoot
        /\ tasks[k].found = << Outer >>
        /\ tasks[k].todo = << >>
        /\ heap[tasks[k].fc].folder = Outer
        /\ \A i \in 1..Len(folders) : heap[folders[i]].folder # Inner

\* the upward searches in progress
Searching == {k \in 1..Len(tasks) : tasks[k].pc = "gpf_valid"}

\* C33: every upward search of getPackageFolder ends; the directory it tests
\* is the containing directory of the path or one above it, and is in the
\* workspace folder of the path; the directory it returns is in that
\* workspace folder.
C33_UpwardSearchBounded ==
    /\ [](\A k \in Searching :
             /\ isPathInsidePath(dirname(tasks[k].uri.path), tasks[k].dir)
             /\ isPathInsidePath(tasks[k].dir, tasks[k].wsp))
    /\ []((upward.made /\ upward.result # NoPath) =>
             isPathInsidePath(upward.result, upward.workspace))
    /\ ((Searching # {}) ~> (Searching = {}))

\* the directory holds a Package.swift or a compile_commands.json
HasManifest(d) == d \in HasPackageSwift \cup HasCompileCommands

\* C34: the root of every FolderContext created holds a manifest, and so
\* does the directory of every call of addPackageFolder that is creating
\* one, whether the call comes from searchForPackages or from
\* focusPackageUri.
C34_RegisteredHasManifest ==
    /\ \A r \in 1..Len(heap) : HasManifest(heap[r].folder)
    /\ \A k \in 1..Len(tasks) :
          tasks[k].pc = "apf_create" => HasManifest(tasks[k].dir)

\* /ws/outer/inner, which holds a compile_commands.json only, has been
\* registered by the search of its workspace folder, and /ws/Packages, which
\* holds a Package.swift only and which the search skips, by focusPackageUri
C34_Witness ==
    \E r1, r2 \in 1..Len(heap) :
        /\ heap[r1].folder = Inner
        /\ Inner \notin HasPackageSwift
        /\ heap[r2].folder = <<"ws", "Packages">>
        /\ <<"ws", "Packages">> \notin HasCompileCommands
        /\ initialisationFinished

\* C35: currentFolder is undefined, null or a member of folders.
C35_FocusedIsRegistered ==
    IsFolder(currentFolder) => currentFolder \in Range(folders)

\* the focus or unfocus event the observer of the n-th call of the block was
\* sent last before that call
LastSent(n) ==
    LET c == calls'[n]
        earlier == {m \in 1..(n - 1) : /\ calls'[m].obs = c.obs
                                       /\ calls'[m].ev \in {"focus", "unfocus"}}
    IN IF earlier = {} THEN view[c.obs]
       ELSE LET m == CHOOSE m \in earlier : \A j \in earlier : j <= m
            IN [ev |-> calls'[m].ev, fc |-> calls'[m].fc]

\* C36: an observer is sent focus only when the last of the two events it
\* was sent is an unfocus or it was sent neither yet, and it is sent
\* unfocus(X) only when the last it was sent is focus(X).
C36_FocusUnfocusAlternate ==
    [][\A n \in 1..Len(calls') :
          /\ calls'[n].ev = "focus" => LastSent(n).ev # "focus"
          /\ calls'[n].ev = "unfocus" => LastSent(n) = Focus(calls'[n].fc)]_vars

\* the addPackageFolder call of focusPackageUri is rejected in this step
DiscoveryFails == 
    /\ rejected'.made
    /\ rejected'.stack # << >>
    /\ Head(rejected'.stack) = "fpu_focus"

\* the upward search of focusPackageUri ends in this step, after
\* initialisation, with a directory that is in no workspace folder
DiscoveredOutside ==
    /\ upward'.made
    /\ upward'.result # NoPath
    /\ initialisationFinished
    /\ getWorkspaceFolder(workspaceFolders, upward'.result) = NoPath

\* C37: when addPackageFolder is rejected in focusPackageUri, after
\* unfocusCurrentFolder, currentFolder is undefined and the step sends no
\* event; a focusFolder call made while currentFolder is undefined sends no
\* unfocus; and when the directory found is in no workspace folder
\* focusPackageUri returns without an event or a change of the folders, the
\* focus or the deferred uri.
C37_FailedDiscoveryLeavesUndetermined ==
    [][/\ DiscoveryFails => (currentFolder' = UndefinedRef /\ calls' = << >>)
       /\ (ffCall'.made /\ ffCall'.cur = UndefinedRef) =>
             \A n \in 1..Len(calls') : calls'[n].ev # "unfocus"
       /\ DiscoveredOutside =>
             /\ calls' = << >>
             /\ view' = view
             /\ folders' = folders
             /\ heap' = heap
             /\ currentFolder' = currentFolder
             /\ lastFocusUri' = lastFocusUri]_vars

\* the task is a focus request that getPackageFolder has resolved to a
\* registered folder and that has not yet cleared the deferred request
ResolvedToRegistered(t) ==
    \/ t.pc = "gpf_wait" /\ t.pk = "folder"
    \/ \E i \in 1..Len(t.stack) : t.stack[i] = "fpu_clear"

CanonicalName(f) ==
    IF f.folder = f.workspaceFolder THEN "Build All"
    ELSE "Build All (" \o relativePath(f) \o ")"

\* the lookup of getBuildAllTask for f among the tasks of tasks.json alone
DeclaredLookup(f) ==
    getBuildAllTask(f, SelectSeq(hostTasks, LAMBDA task : task.source = "Workspace"))

\* C39: when the task createBuildAllTask makes for a folder is among the
\* tasks fetched and no task of tasks.json is found for the folder,
\* getBuildAllTask returns that task; the task has the canonical name and
\* the folder as working directory; and the task made for a folder is not
\* found by the lookup of a folder with another root.
C39_GeneratedTaskIsFound ==
    /\ buildAll.made =>
          LET f == heap[buildAll.folder]
          IN (/\ createBuildAllTask(f) \in Range(hostTasks)
              /\ DeclaredLookup(f).task = NoTask) =>
                 /\ buildAll.error = ""
                 /\ buildAll.task = createBuildAllTask(f)
    /\ \A r \in 1..Len(heap) :
          /\ createBuildAllTask(heap[r]).name = CanonicalName(heap[r])
          /\ createBuildAllTask(heap[r]).cwd = heap[r].folder
          /\ createBuildAllTask(heap[r]).source = "swift"
    /\ \A r1, r2 \in 1..Len(heap) :
          heap[r1].folder # heap[r2].folder =>
              getBuildAllTask(heap[r1], << createBuildAllTask(heap[r2]) >>).task
                  = NoTask

\* getBuildAllTask has returned the generated task of /ws/Packages, which is
\* named after its relative path, from tasks that hold the generated task of
\* a second folder and a task of tasks.json
C39_Witness ==
    /\ buildAll.made
    /\ buildAll.error = ""
    /\ heap[buildAll.folder].folder = <<"ws", "Packages">>
    /\ buildAll.task = createBuildAllTask(heap[buildAll.folder])
    /\ buildAll.task.name = "Build All (Packages)"
    /\ \E r \in 1..Len(heap) :
          /\ r # buildAll.folder
          /\ createBuildAllTask(heap[r]) \in Range(hostTasks)
    /\ \E n \in 1..Len(hostTasks) : hostTasks[n].source = "Workspace"
====
